---- MODULE Spec2Model ----
(***************************************************************************)
(* A model of the bulk data-aggregation layer of tabletennis_api:          *)
(* EventsManager.get_events_bulk, get_tournament_complete and              *)
(* get_player_history (managers.py) with the entity models they use        *)
(* (models.py).  The remote API is the environment: every listing, detail  *)
(* and odds call answers with some response or raises one of the client's  *)
(* typed errors.                                                           *)
(***************************************************************************)
EXTENDS Integers, Sequences, FiniteSets, TLC

VARIABLES
    op,          \* the aggregation call in progress ("idle" before the call)
    pc,          \* position in the call: "idle", "scan", "walk", ..., "done", "raised"
    args,        \* the arguments of the call
    calls,       \* the endpoint calls issued so far, in order
    served,      \* number of events the backend has served in this call
    typeIdx,     \* index of the status partition being scanned
    page,        \* the page the next listing call asks for
    results,     \* get_events_bulk: results (id -> event)
    not_found,   \* get_events_bulk: not_found
    matches,     \* the page walk in progress: matches
    walked,      \* get_tournament_complete: ended_matches, upcoming_matches, live_matches
    all_matches, \* get_tournament_complete, get_player_history: all_matches
    tournament_name, \* get_tournament_complete: tournament_name
    h2h_records, \* get_player_history: h2h_records (opponent -> matches)
    todo,        \* get_player_history: the opponent looked up and those still to be
    failed,      \* history: the partitions and walks that met an exception
    seen,        \* history of get_events_bulk and get_player_history: the ids of the
                 \* events the listings returned
    last,        \* history of get_events_bulk: how the latest listing call ended
    odds_log,    \* history of get_tournament_complete: how each odds query ended
    ret,         \* the outcome of the call: a value or the exception raised
    backend,     \* the backend the call runs against: "any", "crowded", "endless"
    rate_limit,            \* TableTennisAPI.rate_limit
    rate_limit_remaining,  \* TableTennisAPI.rate_limit_remaining
    rate_limit_reset       \* TableTennisAPI.rate_limit_reset

vars == <<op, pc, args, calls, served, typeIdx, page, results, not_found,
          matches, walked, all_matches, tournament_name, h2h_records, todo,
          failed, seen, last, odds_log, ret, backend,
          rate_limit, rate_limit_remaining, rate_limit_reset>>

\* the variables of get_events_bulk, of get_tournament_complete
bulkVars == <<results, not_found, seen, last>>
tournVars == <<walked, tournament_name, failed, odds_log>>
walkVars == <<matches, all_matches>>
playerVars == <<h2h_records, todo>>
\* the rate-limit counters of the client; the responses of the aggregation
\* specifications carry no rate-limit header, which leaves them as they are
\* (client.py 109-114)
clientVars == <<rate_limit, rate_limit_remaining, rate_limit_reset>>

-----------------------------------------------------------------------------
(* Bounds of the model *)

\* the largest number of events on one page of a listing
MaxPerPage == 2
\* recent_form on its own: the largest length of the short match lists
MaxFormLen == 3
\* PaginationInfo on its own: the largest page, per_page and total
PagerMaxPage == 4
PagerMaxPerPage == 3
PagerMaxTotal == 10
\* the largest number of events the backend serves during one get_events_bulk
MaxServedBulk == 2
\* the largest number of events the backend serves during one
\* get_tournament_complete
MaxServedTourn == 2
\* the largest number of events the backend serves during one
\* get_player_history
MaxServedPlayer == 2
\* the largest number of items the backend serves during one list_all or
\* search
MaxServedList == 2
\* the pages of a list_all loop that are followed
MaxListPages == 4
\* the largest limit a caller passes to search
MaxLimit == 2
\* the largest valid max_pages_per_type or max_pages a caller passes
MaxPagesArg == 2
\* the cap a caller passes against the backend "barren"
BarrenPagesArg == 4
\* the "per_page" a pager reports
PerPage == 2
\* the longest sets-won string
MaxScoreLen == 3
\* the most matches the three walks hand to the merge of get_tournament_complete
\* when the merge and the odds sample are looked at on their own
MaxMerged == 4

(* Program constants *)

\* get_events_bulk: "Cannot request more than 100 events at once"
BulkMaxIds == 100
\* get_events_bulk: range(1, 6) checks up to 5 pages
BulkMaxPages == 5
\* get_tournament_complete: max_pages_per_type must be between 1 and 20
TournMaxPages == 20
\* get_tournament_complete: sample_matches = all_matches[:3]
OddsSample == 3
\* get_player_history: days must be between 1 and 365
PlayerMaxDays == 365
\* get_player_history: max_pages must be between 1 and 50
PlayerMaxPages == 50
\* get_player_history: list(opponents)[:10]
H2HMaxOpponents == 10
\* _get_h2h_matches: "Limit to 5 pages"
H2HMaxPages == 5
\* datetime.now() during a call, in days; a call is short against a day
Now == 9

-----------------------------------------------------------------------------
(* Values *)

\* Python's None where a string is expected
NoneStr == <<"None">>

\* Optional[T]: <<>> is None, <<x>> is x
None == <<>>
Some(x) == <<x>>

\* the exceptions of exceptions.py raised by the endpoint client
ApiErrors == {"AuthenticationError", "RateLimitError", "ServerError", "TableTennisAPIError"}

Raise(e) == [exc |-> e]
Return(v) == [exc |-> "none", val |-> v]
NoRet == [exc |-> "pending"]

RECURSIVE SeqToSet(_)
SeqToSet(s) == IF s = <<>> THEN {} ELSE {Head(s)} \cup SeqToSet(Tail(s))

\* all sequences over S of length at most n
RECURSIVE SeqsUpTo(_, _)
SeqsUpTo(S, n) ==
    IF n = 0 THEN { <<>> }
    ELSE LET shorter == SeqsUpTo(S, n - 1)
         IN  shorter \cup { Append(s, x) : s \in {t \in shorter : Len(t) = n - 1}, x \in S }

Min(a, b) == IF a < b THEN a ELSE b

\* get_player_history: todo when no head-to-head lookup is in progress
NoTodo == [cur |-> <<>>, rest |-> {}, left |-> 0]

\* client.py 34-36: the counters of a client that has seen no response
NoRateLimit ==
    /\ rate_limit = None
    /\ rate_limit_remaining = None
    /\ rate_limit_reset = None

-----------------------------------------------------------------------------
(* Python strings.  A string the code computes on (ids, names, scores) is   *)
(* the sequence of its characters.                                          *)

Digits == <<"0", "1", "2", "3", "4", "5", "6", "7", "8", "9">>

IsDigit(c) == \E d \in 1..10 : Digits[d] = c

DigitVal(c) == (CHOOSE d \in 1..10 : Digits[d] = c) - 1

\* str(n) for an int n >= 0
RECURSIVE Decimal(_)
Decimal(n) ==
    IF n < 10 THEN <<Digits[n + 1]>>
    ELSE Append(Decimal(n \div 10), Digits[(n % 10) + 1])

\* a caller-supplied id, Union[str, int]
StrId(s) == [int |-> FALSE, s |-> s, n |-> 0]
IntId(n) == [int |-> TRUE, s |-> <<>>, n |-> n]

\* str(x) for x: Union[str, int]
PyStr(x) == IF x.int THEN Decimal(x.n) ELSE x.s

\* bool(x) for x: Union[str, int]
Truthy(x) == IF x.int THEN x.n # 0 ELSE x.s # <<>>

\* s.strip()
RECURSIVE LStrip(_)
LStrip(s) == IF s # <<>> /\ Head(s) = " " THEN LStrip(Tail(s)) ELSE s
RECURSIVE RStrip(_)
RStrip(s) ==
    IF s # <<>> /\ s[Len(s)] = " " THEN RStrip(SubSeq(s, 1, Len(s) - 1)) ELSE s
Strip(s) == RStrip(LStrip(s))

\* s.split("-")
RECURSIVE SplitFrom(_, _, _)
SplitFrom(s, i, cur) ==
    IF i > Len(s) THEN <<cur>>
    ELSE IF s[i] = "-" THEN <<cur>> \o SplitFrom(s, i + 1, <<>>)
    ELSE SplitFrom(s, i + 1, Append(cur, s[i]))
Split(s) == SplitFrom(s, 1, <<>>)

\* "-" in s
HasDash(s) == \E i \in 1..Len(s) : s[i] = "-"

\* int(s): digits only, else ValueError.  (Python also accepts surrounding
\* blanks, a sign and underscores; after the split on "-" no sign is left and
\* the score alphabet of the model holds neither blanks nor underscores.)
RECURSIVE IntVal(_)
IntVal(s) ==
    IF s = <<>> THEN 0
    ELSE 10 * IntVal(SubSeq(s, 1, Len(s) - 1)) + DigitVal(s[Len(s)])
PyInt(s) ==
    IF s # <<>> /\ \A i \in 1..Len(s) : IsDigit(s[i])
    THEN Return(IntVal(s))
    ELSE Raise("ValueError")

-----------------------------------------------------------------------------
(* models.py: EventSummary *)

\* an EventSummary: home and away are the names of home_player and
\* away_player, time is the timestamp string (in days, in the model);
\* view_data and odds_data are the slots get_events_bulk attaches (_view_data,
\* _odds_data), "unset" while the attribute is absent
Event(id, st, lid, lname, home, away, ss, time) ==
    [id |-> id, time_status |-> st, league_id |-> lid, league_name |-> lname,
     home |-> home, away |-> away, current_score |-> ss, time |-> time,
     view_data |-> "unset", odds_data |-> "unset"]

\* EventSummary.event_datetime: datetime.fromtimestamp(int(self.time))
event_datetime(e) == PyInt(e.time)

is_scheduled(e) == e.time_status \in {"0", "1"}

is_live(e) == e.time_status = "2"

\* is_finished taken for "has started"
is_finished_or_live(e) == e.time_status \in {"2", "3"}

is_finished(e) == e.time_status = "3"

\* EventSummary.sets_score
sets_score(e) ==
    IF e.current_score = NoneStr THEN Raise("TypeError")
    ELSE IF HasDash(e.current_score)
    THEN LET parts == Split(e.current_score)
             h == PyInt(parts[1])
             a == PyInt(parts[2])
         IN  IF h.exc # "none" THEN h
             ELSE IF a.exc # "none" THEN a
             ELSE Return(<<h.val, a.val>>)
    ELSE Return(<<0, 0>>)

\* is_winner with equal sets given to the home side
is_winner_ties_to_home(e, player_name) ==
    IF e.time_status # "3" THEN Return(FALSE)
    ELSE LET s == sets_score(e)
         IN  IF s.exc # "none" THEN s
             ELSE IF s.val[1] >= s.val[2] THEN Return(e.home = player_name)
             ELSE Return(e.away = player_name)

\* EventSummary.is_winner
is_winner(e, player_name) ==
    IF ~is_finished(e) THEN Return(FALSE)
    ELSE LET s == sets_score(e)
         IN  IF s.exc # "none" THEN s
             ELSE IF s.val[1] > s.val[2] THEN Return(e.home = player_name)
             ELSE IF s.val[2] > s.val[1] THEN Return(e.away = player_name)
             ELSE Return(FALSE)

-----------------------------------------------------------------------------
(* models.py: PaginationInfo, APIResponse *)

PaginationInfo(p, per, tot) == [page |-> p, per_page |-> per, total |-> tot]

\* total_pages, were the division to round down
total_pages_floor(pg) == pg.total \div pg.per_page

\* lines 448-451: (self.total + self.per_page - 1) // self.per_page
total_pages(pg) == (pg.total + pg.per_page - 1) \div pg.per_page

has_next_page(pg) == pg.page < total_pages(pg)

has_previous_page(pg) == pg.page > 1

\* the attributes of an APIResponse: its two fields and the count property
APIResponseAttrs == {"results", "pagination", "count"}

APIResponse(rs, pg) == [results |-> rs, pagination |-> pg]

-----------------------------------------------------------------------------
(* The endpoint client as seen by the aggregation layer *)

\* the pager of a response to a request for page p: absent, or one whose
\* total says nothing exists, page p is the last one, one more event
\* follows, or a full page follows
Pagers(p) ==
    {None} \cup { Some(PaginationInfo(p, PerPage, t)) :
                    t \in {0, p * PerPage, p * PerPage + 1, (p + 1) * PerPage} }

\* what one call of get_ended / get_upcoming / get_inplay(page = p) can do:
\* raise one of the client's errors, or return a page of events of the pool
\* while the backend has served fewer than budget events in this call
ListingOutcomes(pool, p, budget) ==
    { Raise(e) : e \in ApiErrors }
    \cup { Return(APIResponse(rs, pg)) :
             rs \in SeqsUpTo(pool, Min(MaxPerPage, budget - served)),
             pg \in Pagers(p) }

\* how a listing call ended: it raised, returned no events, or returned
\* events with a pager that reports a next page ("more"), with one that
\* reports none ("end"), or without a pager ("nopager")
Ending(out) ==
    IF out.exc # "none" THEN "raised"
    ELSE IF out.val.results = <<>> THEN "empty"
    ELSE IF out.val.pagination = None THEN "nopager"
    ELSE IF has_next_page(out.val.pagination[1]) THEN "more"
    ELSE "end"

\* the ids of the events a listing outcome holds
IdsOf(out) ==
    IF out.exc # "none" THEN {} ELSE { e.id : e \in SeqToSet(out.val.results) }

\* an entry of the call log
ListingCall(ep, p) == [ep |-> ep, page |-> p, id |-> <<>>]
EventCall(ep, id) == [ep |-> ep, page |-> 0, id |-> id]

ListingEndpoints == {"ended", "upcoming", "inplay"}

IsListing(c) == c.ep \in ListingEndpoints

\* the listing calls of a call log, in order
RECURSIVE Listings(_)
Listings(log) ==
    IF log = <<>> THEN <<>>
    ELSE IF IsListing(Head(log)) THEN <<Head(log)>> \o Listings(Tail(log))
    ELSE Listings(Tail(log))

-----------------------------------------------------------------------------
(* managers.py: EventsManager.get_events_bulk *)

\* the event types, were the upcoming listing scanned first
event_types_upcoming_first == <<"upcoming", "ended", "inplay">>

\* event_types = ["ended", "upcoming", "inplay"]
event_types == <<"ended", "upcoming", "inplay">>

\* an event of the listings that differs from its like in id and status only
BulkEvent(id, st) ==
    Event(id, st, <<"T">>, <<"L">>, <<"A">>, <<"B">>, <<"3", "-", "1">>, <<"9">>)

\* the events the listings can hold: three ids, one of them in two copies
BulkPool ==
    { BulkEvent(<<"X">>, "3"), BulkEvent(<<"X">>, "1"),
      BulkEvent(<<"7">>, "3"), BulkEvent(<<"Y">>, "3") }

\* the ids a caller asks for: a string and an int
BulkIdArgs == { StrId(<<"X">>), IntId(7) }

\* the lists of ids a caller passes: short ones (the empty one included),
\* one of exactly 100 ids and one of 101
BulkIdLists ==
    SeqsUpTo(BulkIdArgs, 2)
    \cup { [i \in 1..BulkMaxIds |-> StrId(<<"X">>)],
           [i \in 1..(BulkMaxIds + 1) |-> StrId(<<"X">>)] }

\* str_event_ids = [str(id) for id in event_ids]
str_event_ids(event_ids) == [i \in 1..Len(event_ids) |-> PyStr(event_ids[i])]

\* lines 815-819: the validation of get_events_bulk
BulkValidate(event_ids) ==
    IF event_ids = <<>> THEN Raise("ValueError")
    ELSE IF Len(event_ids) > BulkMaxIds THEN Raise("ValueError")
    ELSE Return(TRUE)

\* how the two optional fetches for one resolved event end (TRUE = returned,
\* FALSE = raised); a fetch that is not requested is not made
EnrichOutcomes ==
    [view : IF args.include_view THEN BOOLEAN ELSE {TRUE},
     odds : IF args.include_odds THEN BOOLEAN ELSE {TRUE}]

\* the fetches made for a resolved event, were both to stand in one try
\* block: no odds fetch after a failed detail fetch
EnrichCallsOneTry(id, e) ==
    (IF args.include_view THEN <<EventCall("view", id)>> ELSE <<>>)
    \o (IF args.include_odds /\ (e.view \/ ~args.include_view)
        THEN <<EventCall("odds", id)>> ELSE <<>>)

\* lines 860-874: the fetches made for a resolved event whose fetches end as
\* e says: each stands in its own try block, so the odds fetch is made
\* whether the detail fetch raised or not
EnrichCalls(id, e) ==
    (IF args.include_view THEN <<EventCall("view", id)>> ELSE <<>>)
    \o (IF args.include_odds THEN <<EventCall("odds", id)>> ELSE <<>>)

\* line 856 with the test dropped: every event of the page is recorded
BulkMatchesAny(event, nf) == TRUE

\* line 856, were the test made against the requested ids and not against
\* the outstanding ones
BulkMatchesRequested(event, nf) ==
    event.id \in SeqToSet(str_event_ids(args.event_ids))

\* line 856: if event.id in not_found
BulkMatches(event, nf) == event.id \in nf

\* lines 855-874: the loop over the events of one page, from event i on.
\* st = [results, not_found, calls]; enr[id] tells how the detail and odds
\* fetches for the event of that id end.  hasattr(self.client, "odds") holds
\* (client.py 42).
RECURSIVE BulkScanEvents(_, _, _, _)
BulkScanEvents(evs, i, st, enr) ==
    IF i > Len(evs) THEN st
    ELSE LET event == evs[i]
         IN  IF BulkMatches(event, st.not_found)
             THEN LET viewed == args.include_view /\ enr[event.id].view
                      priced == args.include_odds /\ enr[event.id].odds
                      stored == [event EXCEPT
                                   !.view_data = IF viewed THEN "set" ELSE @,
                                   !.odds_data = IF priced THEN "set" ELSE @]
                      log2 == st.calls \o EnrichCalls(event.id, enr[event.id])
                  IN  BulkScanEvents(evs, i + 1,
                        [results |-> (event.id :> stored) @@ st.results,
                         not_found |-> st.not_found \ {event.id},
                         calls |-> log2], enr)
             ELSE BulkScanEvents(evs, i + 1, st, enr)

\* the outstanding ids a listing outcome resolves
ResolvedBy(out) ==
    IF out.exc # "none" THEN {}
    ELSE { e.id : e \in { x \in SeqToSet(out.val.results) : BulkMatches(x, not_found) } }

\* line 882: response.pager.  APIResponse has no attribute of that name.
PagerOf(response) ==
    IF "pager" \in APIResponseAttrs THEN Return(response.pagination)
    ELSE Raise("AttributeError")

\* lines 881-885: "Stop if this was the last page"
BulkIsLastPage(pager) ==
    \/ pager = None
    \/ pager[1].page >= pager[1].total \div pager[1].per_page

\* what would follow the processing of one page, were an exception to end
\* the page and not the partition
BulkAfterPageSkipsPage(out, nf) ==
    IF out.exc # "none" THEN (IF page < BulkMaxPages THEN "page" ELSE "type")
    ELSE IF out.val.results = <<>> THEN "type"
    ELSE IF nf = {} THEN "type"
    ELSE "type"

\* what would follow the processing of one page, were the pager read from
\* response.pagination and the range of pages without an end
BulkAfterPageUncapped(out, nf) ==
    IF out.exc # "none" THEN "type"
    ELSE IF out.val.results = <<>> THEN "type"
    ELSE IF nf = {} THEN "type"
    ELSE IF BulkIsLastPage(out.val.pagination) THEN "type"
    ELSE "page"

\* what follows the processing of one page: "page" = the next page of the
\* same partition, "type" = the next partition (lines 851-890)
BulkAfterPage(out, nf) ==
    IF out.exc # "none" THEN "type"                      \* except ...: continue
    ELSE IF out.val.results = <<>> THEN "type"           \* if not response.results: break
    ELSE IF nf = {} THEN "type"                          \* if not not_found: break
    ELSE LET pager == PagerOf(out.val)
         IN  IF pager.exc # "none" THEN "type"           \* except ...: continue
             ELSE IF BulkIsLastPage(pager.val) THEN "type"
             ELSE IF page < BulkMaxPages THEN "page"
             ELSE "type"

\* lines 833-835 without the test of not_found
BulkGoesOnAlways(t, nf) == t <= Len(event_types)

\* lines 833-835: the scan goes on to partition t (if there is one) only
\* while some id is outstanding
BulkGoesOn(t, nf) == t <= Len(event_types) /\ nf # {}

\* the pages of the backend "copies": the first page of each listing holds
\* several copies of the requested ids, the later pages nothing
CopiesPage(ep, p) ==
    IF p > 1 THEN <<>>
    ELSE IF ep = "ended"
    THEN <<BulkEvent(<<"Y">>, "3"), BulkEvent(<<"X">>, "3"), BulkEvent(<<"X">>, "1")>>
    ELSE IF ep = "upcoming"
    THEN <<BulkEvent(<<"X">>, "1"), BulkEvent(<<"7">>, "1"), BulkEvent(<<"7">>, "0")>>
    ELSE <<BulkEvent(<<"7">>, "2"), BulkEvent(<<"X">>, "2")>>

\* what a listing call for page p can do during get_events_bulk.  Against the
\* backend "endless": every page holds the event Y and its pager reports a
\* next page.  Against the backend "copies": the page CopiesPage says, without
\* a pager.  Against any other backend: what ListingOutcomes says
BulkListingOutcomes(p) ==
    IF backend = "endless"
    THEN { Return(APIResponse(<<BulkEvent(<<"Y">>, "3")>>,
                              Some(PaginationInfo(p, 1, p + 2)))) }
    ELSE IF backend = "copies"
    THEN { Return(APIResponse(CopiesPage(event_types[typeIdx], p), None)) }
    ELSE ListingOutcomes(BulkPool, p, MaxServedBulk)

\* the call: validation and initialisation (lines 815-831)
BulkCall ==
    /\ UNCHANGED <<backend, clientVars>>
    /\ pc = "idle"
    /\ \E ids \in BulkIdLists, io \in BOOLEAN, iv \in BOOLEAN :
         /\ op' = "bulk"
         /\ args' = [event_ids |-> ids, include_odds |-> io, include_view |-> iv]
         /\ IF BulkValidate(ids).exc # "none"
            THEN /\ pc' = "raised"
                 /\ ret' = BulkValidate(ids)
                 /\ UNCHANGED <<results, not_found>>
            ELSE /\ pc' = "scan"
                 /\ ret' = NoRet
                 /\ results' = << >>
                 /\ not_found' = SeqToSet(str_event_ids(ids))
    /\ typeIdx' = 1
    /\ page' = 1
    /\ seen' = {}
    /\ last' = "pending"
    /\ UNCHANGED <<calls, served, tournVars, walkVars, playerVars>>

\* one listing call and everything up to the next one (lines 849-890), the
\* return included when the scan ends (lines 892-899)
BulkPage ==
    /\ UNCHANGED <<backend, clientVars>>
    /\ op = "bulk" /\ pc = "scan"
    /\ \E out \in BulkListingOutcomes(page) :
       \E enr \in [ResolvedBy(out) -> EnrichOutcomes] :
         LET log0 == Append(calls, ListingCall(event_types[typeIdx], page))
             st0 == [results |-> results, not_found |-> not_found, calls |-> log0]
             st1 == IF out.exc # "none" THEN st0
                    ELSE BulkScanEvents(out.val.results, 1, st0, enr)
             after == BulkAfterPage(out, st1.not_found)
         IN  /\ results' = st1.results
             /\ not_found' = st1.not_found
             /\ calls' = st1.calls
             /\ served' = IF out.exc # "none" THEN served
                          ELSE served + Len(out.val.results)
             /\ seen' = seen \cup IdsOf(out)
             /\ last' = Ending(out)
             /\ failed' = IF out.exc # "none"
                          THEN failed \cup {event_types[typeIdx]} ELSE failed
             /\ IF after = "page"
                THEN /\ page' = page + 1
                     /\ UNCHANGED <<typeIdx, pc, ret>>
                ELSE IF BulkGoesOn(typeIdx + 1, st1.not_found)
                THEN /\ typeIdx' = typeIdx + 1
                     /\ page' = 1
                     /\ UNCHANGED <<pc, ret>>
                ELSE /\ pc' = "done"
                     /\ ret' = Return(st1.results)
                     /\ UNCHANGED <<typeIdx, page>>
    /\ UNCHANGED <<op, args>>
    /\ UNCHANGED <<walked, tournament_name, odds_log, walkVars, playerVars>>

-----------------------------------------------------------------------------
(* models.py: TournamentData *)

\* the number of elements of a list that satisfy P
Count(s, P(_)) == Len(SelectSeq(s, P))

\* the least and the greatest number of a non-empty set
MinOf(S) == CHOOSE x \in S : \A y \in S : x <= y
MaxOf(S) == CHOOSE x \in S : \A y \in S : x >= y

\* TournamentData.from_matches (the roster left out); reading event_datetime
\* for the date range raises when a timestamp is no number
TournamentData_from_matches(tid, tname, ms, has_odds) ==
    IF \E i \in 1..Len(ms) : event_datetime(ms[i]).exc # "none"
    THEN Raise("ValueError")
    ELSE LET dates == { event_datetime(ms[i]).val : i \in 1..Len(ms) }
         IN  Return(
               [tournament_id |-> tid,
                tournament_name |-> tname,
                matches |-> ms,
                total_matches |-> Len(ms),
                completed_matches |-> Count(ms, is_finished),
                live_matches |-> Count(ms, is_live),
                upcoming_matches |-> Count(ms, is_scheduled),
                date_range |-> IF dates = {} THEN <<None, None>>
                               ELSE <<Some(MinOf(dates)), Some(MaxOf(dates))>>,
                has_odds_data |-> has_odds])

-----------------------------------------------------------------------------
(* managers.py: EventsManager.get_tournament_complete *)

\* the partitions in the order get_tournament_complete walks them, and the
\* listing endpoint _get_tournament_matches calls for each
match_types == <<"ended", "upcoming", "live">>
EndpointOf(match_type) == IF match_type = "live" THEN "inplay" ELSE match_type

\* an event of the listings with the fields the tournament walk reads
TournEvent(id, st, lid, lname) ==
    Event(id, st, lid, lname, <<"A">>, <<"B">>, <<"3", "-", "1">>, <<"9">>)

\* the events the listings can hold: a match of league 5 in two states, a
\* scheduled one without a league name and a match of another league
TournPool ==
    { TournEvent(<<"X">>, "3", <<"5">>, <<"L">>),
      TournEvent(<<"X">>, "2", <<"5">>, <<"L">>),
      TournEvent(<<"Y">>, "1", <<"5">>, <<>>),
      TournEvent(<<"Z">>, "3", <<"U">>, <<"M">>) }

\* the tournament ids a caller passes
TournIdArgs ==
    { StrId(<<"5">>), IntId(5), StrId(<<>>), StrId(<<" ">>), IntId(0) }

\* the max_pages_per_type a caller passes
TournPagesArgs ==
    0..MaxPagesArg \cup {TournMaxPages + 1}
    \cup (IF backend = "barren" THEN {BarrenPagesArg} ELSE {})

\* lines 629-633: the validation of get_tournament_complete
TournValidate(tournament_id, max_pages_per_type) ==
    IF ~Truthy(tournament_id) \/ Strip(PyStr(tournament_id)) = <<>>
    THEN Raise("ValueError")
    ELSE IF max_pages_per_type < 1 \/ max_pages_per_type > TournMaxPages
    THEN Raise("ValueError")
    ELSE Return(TRUE)

\* lines 761-765 without the filter
tournament_matches_unfiltered(response, tournament_id) == response.results

\* lines 761-765: the events of a page that belong to the tournament
tournament_matches(response, tournament_id) ==
    LET InTournament(event) == event.league_id = tournament_id
    IN  SelectSeq(response.results, InTournament)

\* a walk that loses what it gathered when a page raises
WalkResultLostOnFailure(acc, found, page_failed) ==
    IF page_failed THEN <<>> ELSE acc \o found

\* a walk that marks the matches it keeps
WalkResultMarked(acc, found, page_failed) ==
    acc \o [i \in 1..Len(found) |-> [found[i] EXCEPT !.odds_data = "set"]]

\* lines 767 and 779-782 (531 and 541-544 in the player walk): the matches of a
\* walk after a page, acc being those of the earlier pages; a page that raised
\* adds nothing (found is empty) and the walk returns acc
WalkResult(acc, found, page_failed) == acc \o found

\* lines 769-777 without the cap of line 748
WalkGoesOnUncapped(found, response, p, max_pages) ==
    /\ ~(found = <<>> /\ p > 1)
    /\ response.pagination # None
    /\ has_next_page(response.pagination[1])

\* lines 769-777 and 748 without the test of lines 769-770: a page that gave
\* nothing does not end the walk
WalkGoesOnPastBarren(found, response, p, max_pages) ==
    /\ response.pagination # None
    /\ has_next_page(response.pagination[1])
    /\ p + 1 <= max_pages

\* lines 769-777 and 748: after a page that gave found, does the walk ask for
\* the next page?
WalkGoesOn(found, response, p, max_pages) ==
    /\ ~(found = <<>> /\ p > 1)
    /\ response.pagination # None
    /\ has_next_page(response.pagination[1])
    /\ p + 1 <= max_pages

\* the partition walked after partition t, were a failed walk to end the call
PartitionAfterAbort(t, out) ==
    IF out.exc # "none" THEN Len(match_types) + 1 ELSE t + 1

\* the partition walked after partition t, were a failed walk tried again
PartitionAfterRetry(t, out) == IF out.exc # "none" THEN t ELSE t + 1

\* lines 641-687: each walk stands in its own try block, so the partition
\* after partition t is walked however the walk of t ended
PartitionAfter(t, out) == t + 1

\* lines 690-693 without the dictionary: every match is kept
DedupeNone(s) == s

\* lines 690-693, were the first copy of an id kept and not the last
RECURSIVE DedupeKeepsFirst(_)
DedupeKeepsFirst(s) ==
    IF s = <<>> THEN <<>>
    ELSE <<Head(s)>> \o DedupeKeepsFirst(SelectSeq(Tail(s), LAMBDA m : m.id # Head(s).id))

\* lines 690-693 (and 459-462): unique_matches[match.id] = match for every
\* match, then list(unique_matches.values()): a dict keeps the position of the
\* first insertion of a key and the value of the last
RECURSIVE LastWithId(_, _)
LastWithId(s, id) ==
    IF s[Len(s)].id = id THEN s[Len(s)] ELSE LastWithId(SubSeq(s, 1, Len(s) - 1), id)
RECURSIVE FirstIds(_, _)
FirstIds(s, had) ==
    IF s = <<>> THEN <<>>
    ELSE IF Head(s).id \in had THEN FirstIds(Tail(s), had)
    ELSE <<Head(s).id>> \o FirstIds(Tail(s), had \cup {Head(s).id})
Dedupe(s) == LET ids == FirstIds(s, {}) IN [i \in 1..Len(ids) |-> LastWithId(s, ids[i])]

\* lines 650-651: the tournament name after a partition's walk returned ms
NameAfter(name, ms) ==
    IF ms # <<>> /\ (name = None \/ name[1] = <<>>)
    THEN Some(ms[1].league_name)
    ELSE name

\* lines 698-699: f"Tournament {tournament_id}" unless a name was found
FinalName(name, tournament_id) ==
    IF name = None \/ name[1] = <<>>
    THEN <<"T", "o", "u", "r", "n", "a", "m", "e", "n", "t", " ">> \o tournament_id
    ELSE name[1]

\* the call: validation and initialisation (lines 629-637)
TournCall ==
    /\ UNCHANGED <<backend, clientVars>>
    /\ pc = "idle"
    /\ \E tid \in TournIdArgs, io \in BOOLEAN, mp \in TournPagesArgs :
         /\ op' = "tournament"
         /\ IF TournValidate(tid, mp).exc # "none"
            THEN /\ pc' = "raised"
                 /\ ret' = TournValidate(tid, mp)
                 /\ args' = [tournament_id |-> tid, include_odds |-> io,
                             max_pages_per_type |-> mp]
            ELSE /\ pc' = "walk"
                 /\ ret' = NoRet
                 \* line 635: tournament_id = str(tournament_id)
                 /\ args' = [tournament_id |-> StrId(PyStr(tid)), include_odds |-> io,
                             max_pages_per_type |-> mp]
    /\ typeIdx' = 1
    /\ page' = 1
    /\ matches' = <<>>
    /\ all_matches' = <<>>
    /\ walked' = <<>>
    /\ tournament_name' = None
    /\ odds_log' = <<>>
    /\ UNCHANGED <<calls, served, failed, bulkVars, playerVars>>

\* what a listing call for page p can do during get_tournament_complete.
\* Against the backend "endless": every page holds a match of league 5 and its
\* pager reports a next page.  Against the backend "barren": every page holds
\* one match, of league 5 or of another league, and its pager reports a next
\* page.  Against any other backend: what ListingOutcomes says
TournListingOutcomes(p) ==
    IF backend = "endless"
    THEN { Return(APIResponse(<<TournEvent(<<"X">>, "3", <<"5">>, <<"L">>)>>,
                              Some(PaginationInfo(p, 1, p + 1)))) }
    ELSE IF backend = "barren"
    THEN { Return(APIResponse(<<e>>, Some(PaginationInfo(p, 1, p + 1)))) :
             e \in { TournEvent(<<"X">>, "3", <<"5">>, <<"L">>),
                     TournEvent(<<"Z">>, "3", <<"U">>, <<"M">>) } }
    ELSE ListingOutcomes(TournPool, p, MaxServedTourn)

\* one listing call of _get_tournament_matches and everything up to the next
\* call (lines 748-782); when the walk ends, the caller's handling of what it
\* returned (lines 647-651, 663-667, 679-683)
TournPage ==
    /\ UNCHANGED <<backend, clientVars>>
    /\ op = "tournament" /\ pc = "walk"
    /\ \E out \in TournListingOutcomes(page) :
         LET tournament_id == PyStr(args.tournament_id)
             found == IF out.exc # "none" THEN <<>>
                      ELSE tournament_matches(out.val, tournament_id)
             ms == WalkResult(matches, found, out.exc # "none")
             goes_on == /\ out.exc = "none"
                        /\ WalkGoesOn(found, out.val, page, args.max_pages_per_type)
         IN  /\ calls' = Append(calls, ListingCall(EndpointOf(match_types[typeIdx]), page))
             /\ served' = IF out.exc # "none" THEN served
                          ELSE served + Len(out.val.results)
             /\ failed' = IF out.exc # "none"
                          THEN failed \cup {match_types[typeIdx]} ELSE failed
             /\ IF goes_on
                THEN /\ matches' = ms
                     /\ page' = page + 1
                     /\ UNCHANGED <<typeIdx, pc, walked, all_matches, tournament_name>>
                ELSE /\ matches' = <<>>
                     /\ page' = 1
                     /\ walked' = Append(walked, ms)
                     /\ all_matches' = all_matches \o ms
                     /\ tournament_name' = NameAfter(tournament_name, ms)
                     /\ IF PartitionAfter(typeIdx, out) <= Len(match_types)
                        THEN typeIdx' = PartitionAfter(typeIdx, out) /\ pc' = "walk"
                        ELSE typeIdx' = typeIdx /\ pc' = "finish"
    /\ UNCHANGED <<op, args, ret, odds_log, bulkVars, playerVars>>

\* how one odds query ends: self.client.odds.get_summary returns odds,
\* returns an empty mapping, or raises
OddsOutcomes == {"odds", "empty", "raised"}

\* an entry of the log of odds queries
OddsQuery(id, out) == [id |-> id, out |-> out]

\* lines 712-713 without the test "if odds"
OddsFoundAnyAnswer(odds) ==
    Cardinality({ i \in DOMAIN odds : odds[i] \in {"odds", "empty"} })

\* lines 707-713: odds_found, the number of queries that returned odds
OddsFound(odds) == Cardinality({ i \in DOMAIN odds : odds[i] = "odds" })

\* lines 689-739: deduplication, the name, the odds sample and the result
TournFinish ==
    /\ UNCHANGED <<backend, clientVars>>
    /\ op = "tournament" /\ pc = "finish"
    /\ LET tournament_id == PyStr(args.tournament_id)
           unique == Dedupe(all_matches)
           sample == IF args.include_odds
                     THEN SubSeq(unique, 1, Min(OddsSample, Len(unique)))
                     ELSE <<>>
       IN  \E odds \in [1..Len(sample) -> OddsOutcomes] :
             LET odds_found == OddsFound(odds)
                 r == TournamentData_from_matches(
                        tournament_id, FinalName(tournament_name, tournament_id),
                        unique, odds_found > 0)
             IN  /\ all_matches' = unique
                 /\ calls' = calls \o [i \in 1..Len(sample) |-> EventCall("odds", sample[i].id)]
                 /\ odds_log' = [i \in 1..Len(sample) |-> OddsQuery(sample[i].id, odds[i])]
                 /\ ret' = r
                 /\ pc' = IF r.exc # "none" THEN "raised" ELSE "done"
    /\ UNCHANGED <<op, args, served, typeIdx, page, matches, walked,
                   tournament_name, failed, bulkVars, playerVars>>

\* the matches of tournament 5 the merge can be handed: four matches, one of
\* them in two states, and one whose timestamp is no number
MergePool ==
    { TournEvent(<<"X">>, "3", <<"5">>, <<"L">>),
      TournEvent(<<"X">>, "2", <<"5">>, <<"L">>),
      TournEvent(<<"Y">>, "1", <<"5">>, <<>>),
      TournEvent(<<"W">>, "4", <<"5">>, <<"L">>),
      TournEvent(<<"V">>, "3", <<"5">>, <<"L">>),
      [TournEvent(<<"Q">>, "3", <<"5">>, <<"L">>) EXCEPT !.time = <<"a">>] }

\* get_tournament_complete("5", include_odds, 1) at line 689: the ended
\* listing gave its matches on one page, the two other listings none
InitOdds ==
    /\ backend = "any"
    /\ NoRateLimit
    /\ op = "tournament"
    /\ pc = "finish"
    /\ \E io \in BOOLEAN :
         args = [tournament_id |-> StrId(<<"5">>), include_odds |-> io,
                 max_pages_per_type |-> 1]
    /\ all_matches \in SeqsUpTo(MergePool, MaxMerged)
    /\ walked = <<all_matches, <<>>, <<>>>>
    /\ tournament_name = NameAfter(None, all_matches)
    /\ calls = [i \in 1..Len(match_types) |-> ListingCall(EndpointOf(match_types[i]), 1)]
    /\ served = Len(all_matches)
    /\ typeIdx = Len(match_types)
    /\ page = 1
    /\ results = << >>
    /\ not_found = {}
    /\ matches = <<>>
    /\ h2h_records = << >>
    /\ todo = NoTodo
    /\ failed = {}
    /\ seen = {}
    /\ last = "pending"
    /\ odds_log = <<>>
    /\ ret = NoRet

-----------------------------------------------------------------------------
(* models.py: PlayerMatchHistory *)

\* the counter-party of player_name in a match (lines 580-584, and managers.py
\* 471-475, 562-566)
opponent_of(match, player_name) ==
    IF match.home = player_name THEN match.away ELSE match.home

\* sum(1 for match in matches if match.is_winner(player_name)): the count, or
\* the exception of the first match whose is_winner raises
RECURSIVE WinCount(_, _)
WinCount(ms, player_name) ==
    IF ms = <<>> THEN Return(0)
    ELSE LET w == is_winner(Head(ms), player_name)
         IN  IF w.exc # "none" THEN w
             ELSE LET rest == WinCount(Tail(ms), player_name)
                  IN  IF rest.exc # "none" THEN rest
                      ELSE Return((IF w.val THEN 1 ELSE 0) + rest.val)

\* line 573 with the losses counted on their own: the matches the other side won
LossCountOtherSideWon(ms, player_name, wins) ==
    Len(SelectSeq(ms, LAMBDA m : is_winner(m, opponent_of(m, player_name)) = Return(TRUE)))

\* line 573: loss_count = len(matches) - win_count
LossCount(ms, player_name, wins) == Len(ms) - wins

\* PlayerMatchHistory.from_matches; tournaments and opponents, lists made of
\* sets, are sets here
PlayerMatchHistory_from_matches(player_name, ms, h2h, days) ==
    LET wins == WinCount(ms, player_name)
    IN  IF wins.exc # "none" THEN wins
        ELSE Return(
          [player_name |-> player_name,
           matches |-> ms,
           h2h_records |-> h2h,
           total_matches |-> Len(ms),
           win_count |-> wins.val,
           loss_count |-> LossCount(ms, player_name, wins.val),
           date_range_days |-> days,
           tournaments |-> { m.league_name : m \in { x \in SeqToSet(ms) : x.league_name # <<>> } },
           opponents |-> { opponent_of(m, player_name) : m \in SeqToSet(ms) }])

-----------------------------------------------------------------------------
(* managers.py: EventsManager.get_player_history *)

\* an event of the ended listing with the fields the player walk reads
PlayerEvent(id, st, home, away, ss, time) ==
    Event(id, st, <<"5">>, <<"L">>, home, away, ss, time)

\* the events the ended listing can hold: a win and a loss of player A, a
\* finished match of A with a malformed score, a match of a player whose name
\* differs from A's in case only, an older drawn match of A, and a match of A
\* whose timestamp is no number
PlayerPool ==
    { PlayerEvent(<<"X">>, "3", <<"A">>, <<"B">>, <<"3", "-", "1">>, <<"9">>),
      PlayerEvent(<<"Y">>, "3", <<"C">>, <<"A">>, <<"3", "-", "1">>, <<"8">>),
      PlayerEvent(<<"Z">>, "3", <<"A">>, <<"B">>, <<"a", "-", "1">>, <<"9">>),
      PlayerEvent(<<"V">>, "3", <<"a">>, <<"B">>, <<"3", "-", "1">>, <<"9">>),
      PlayerEvent(<<"U">>, "3", <<"B">>, <<"A">>, <<"1", "-", "1">>, <<"7">>),
      PlayerEvent(<<"W">>, "3", <<"A">>, <<"C">>, <<"3", "-", "1">>, <<"a">>) }

\* one more opponent than list(opponents)[:10] keeps
CrowdNames == <<"D", "E", "F", "G", "H", "I", "J", "K", "L", "M", "N">>

\* a win of A over each of them
PlayerCrowd ==
    [i \in 1..Len(CrowdNames) |->
        PlayerEvent(<<"m", CrowdNames[i]>>, "3", <<"A">>, <<CrowdNames[i]>>,
                    <<"3", "-", "1">>, <<"9">>)]

\* the pages of the backend "ledger": one page more than a head-to-head walk
\* asks for
LedgerPages == H2HMaxPages + 1

\* page p of the backend "ledger": a win of A over B that no other page holds
LedgerPage(p) ==
    IF p \in 1..LedgerPages
    THEN <<PlayerEvent(<<"p", Digits[p + 1]>>, "3", <<"A">>, <<"B">>, <<"3", "-", "1">>, <<"9">>)>>
    ELSE <<>>

\* what get_ended(page = p) can do during get_player_history.  Against the
\* backend "any": what ListingOutcomes says.  Against the backend "crowded":
\* the first page served holds the crowd, every later page is empty, and no
\* response has a pager.  Against the backend "endless": every page holds the
\* first match of the crowd and its pager reports a next page.  Against the
\* backend "barren": every page holds one match, of A against B or of two
\* others, and its pager reports a next page.  Against the backend "ledger":
\* page p is LedgerPage(p) at every call, no call fails, and the pager counts
\* LedgerPages pages
PlayerListingOutcomes(p) ==
    IF backend = "crowded"
    THEN { Return(APIResponse(IF served = 0 THEN PlayerCrowd ELSE <<>>, None)) }
    ELSE IF backend = "endless"
    THEN { Return(APIResponse(<<PlayerCrowd[1]>>, Some(PaginationInfo(p, 1, p + 1)))) }
    ELSE IF backend = "barren"
    THEN { Return(APIResponse(<<e>>, Some(PaginationInfo(p, 1, p + 1)))) :
             e \in { PlayerEvent(<<"X">>, "3", <<"A">>, <<"B">>, <<"3", "-", "1">>, <<"9">>),
                     PlayerEvent(<<"V">>, "3", <<"a">>, <<"B">>, <<"3", "-", "1">>, <<"9">>) } }
    ELSE IF backend = "ledger"
    THEN { Return(APIResponse(LedgerPage(p), Some(PaginationInfo(p, 1, LedgerPages)))) }
    ELSE ListingOutcomes(PlayerPool, p, MaxServedPlayer)

\* the arguments a caller passes
PlayerNameArgs == { <<"A">>, <<>>, <<" ">> }
PlayerDaysArgs == {0, 1, 2, PlayerMaxDays + 1}
PlayerPagesArgs ==
    0..MaxPagesArg \cup {PlayerMaxPages + 1}
    \cup (IF backend = "barren" THEN {BarrenPagesArg} ELSE {})
    \cup (IF backend = "ledger" THEN {H2HMaxPages, LedgerPages} ELSE {})

\* lines 427-434 without the check of days
PlayerValidateNoDays(player_name, days, max_pages) ==
    IF player_name = <<>> \/ Strip(player_name) = <<>> THEN Raise("ValueError")
    ELSE IF max_pages < 1 \/ max_pages > PlayerMaxPages THEN Raise("ValueError")
    ELSE Return(TRUE)

\* lines 427-434: the validation of get_player_history
PlayerValidate(player_name, days, max_pages) ==
    IF player_name = <<>> \/ Strip(player_name) = <<>> THEN Raise("ValueError")
    ELSE IF days < 1 \/ days > PlayerMaxDays THEN Raise("ValueError")
    ELSE IF max_pages < 1 \/ max_pages > PlayerMaxPages THEN Raise("ValueError")
    ELSE Return(TRUE)

\* line 509: cutoff_date = datetime.now() - timedelta(days=days)
cutoff_date(days) == Now - days

\* lines 516-527 without the test against the cutoff
page_matches_of_any_age(evs, player_name, cutoff) ==
    Return(SelectSeq(evs, LAMBDA e : e.home = player_name \/ e.away = player_name))

\* lines 516-527: the matches of one page that are the player's and not older
\* than the cutoff, or the exception met on the way
RECURSIVE page_matches(_, _, _)
page_matches(evs, player_name, cutoff) ==
    IF evs = <<>> THEN Return(<<>>)
    ELSE LET event == Head(evs)
             rest == page_matches(Tail(evs), player_name, cutoff)
         IN  IF event.home = player_name \/ event.away = player_name
             THEN LET dt == event_datetime(event)
                  IN  IF dt.exc # "none" THEN dt
                      ELSE IF rest.exc # "none" THEN rest
                      ELSE IF dt.val >= cutoff THEN Return(<<event>> \o rest.val)
                      ELSE rest
             ELSE rest

\* one page of _get_recent_player_matches(player_name, days, max_pages) (lines
\* 513-542) for the listing outcome out: the matches after the page and
\* whether the walk asks for the next page
WalkPage(out, player_name, days, max_pages) ==
    LET pm == IF out.exc # "none" THEN out
              ELSE page_matches(out.val.results, player_name, cutoff_date(days))
        found == IF pm.exc # "none" THEN <<>> ELSE pm.val
    IN  [matches |-> WalkResult(matches, found, pm.exc # "none"),
         failed |-> pm.exc # "none",
         goes_on |-> pm.exc = "none" /\ WalkGoesOn(found, out.val, page, max_pages)]

\* lines 469-476: the set of the player's opponents in the primary matches
OpponentsOf(ms, player_name) ==
    { opponent_of(m, player_name) : m \in SeqToSet(ms) }

\* the ways the loop can start, were the list of opponents not cut
OpponentListsUncut(ms, player_name) ==
    LET opps == OpponentsOf(ms, player_name)
    IN  { [cur |-> o, rest |-> opps \ {o}, left |-> Cardinality(opps) - 1] : o \in opps }

\* lines 479-481: list(opponents)[:10] is the set in some order, cut to ten.
\* The order shows as the loop goes: cur is the opponent being looked up,
\* rest the opponents the loop has not come to, left the number of lookups
\* the list holds after cur.  These are the ways the loop can start
OpponentLists(ms, player_name) ==
    LET opps == OpponentsOf(ms, player_name)
    IN  { [cur |-> o, rest |-> opps \ {o},
           left |-> Min(H2HMaxOpponents, Cardinality(opps)) - 1] : o \in opps }

\* a lookup that keeps every match of the walk
h2h_matches_of_walk(recent_matches, player1, player2) == recent_matches

\* lines 560-568: the matches of a walk in which player2 is the counter-party
h2h_matches(recent_matches, player1, player2) ==
    SelectSeq(recent_matches, LAMBDA m : opponent_of(m, player1) = player2)

\* the mark in failed of the primary walk (lines 448-456); the walk for an
\* opponent is marked by the opponent's name
Primary == <<"primary">>

\* an entry of failed: the walk that met an exception and the page it was at
FailedWalk(walk, p) == [walk |-> walk, page |-> p]

\* the ways the loop can go on, were a failed lookup to end the lookups
TodoAfterAbort(td, lookup_failed) ==
    IF lookup_failed \/ td.left = 0 THEN {}
    ELSE { [cur |-> o, rest |-> td.rest \ {o}, left |-> td.left - 1] : o \in td.rest }

\* lines 479-490: the ways the loop can go on to the next opponent of the
\* list, whether the lookup failed or not; none after the last of the list
TodoAfter(td, lookup_failed) ==
    IF td.left = 0 THEN {}
    ELSE { [cur |-> o, rest |-> td.rest \ {o}, left |-> td.left - 1] : o \in td.rest }

\* the call: validation and initialisation (lines 427-442)
PlayerCall ==
    /\ UNCHANGED <<backend, clientVars>>
    /\ pc = "idle"
    /\ \E pn \in PlayerNameArgs, d \in PlayerDaysArgs, h \in BOOLEAN,
          mp \in PlayerPagesArgs :
         /\ op' = "player"
         /\ args' = [player_name |-> pn, days |-> d, include_h2h |-> h,
                     max_pages |-> mp]
         /\ IF PlayerValidate(pn, d, mp).exc # "none"
            THEN pc' = "raised" /\ ret' = PlayerValidate(pn, d, mp)
            ELSE pc' = "walk" /\ ret' = NoRet
    /\ page' = 1
    /\ matches' = <<>>
    /\ all_matches' = <<>>
    /\ h2h_records' = << >>
    /\ todo' = NoTodo
    /\ UNCHANGED <<calls, served, typeIdx, bulkVars, tournVars>>

\* the end of the call: pc and ret after PlayerMatchHistory.from_matches
\* (lines 497-502), whose exception nothing catches
PlayerReturns(ms, h2h) ==
    LET r == PlayerMatchHistory_from_matches(args.player_name, ms, h2h, args.days)
    IN  /\ ret' = r
        /\ pc' = IF r.exc # "none" THEN "raised" ELSE "done"

\* one listing call of the primary walk and everything up to the next call;
\* when the walk ends, lines 453-481, and lines 497-502 when no opponent is
\* to be looked up
PlayerPage ==
    /\ UNCHANGED <<backend, clientVars>>
    /\ op = "player" /\ pc = "walk"
    /\ \E out \in PlayerListingOutcomes(page) :
         LET w == WalkPage(out, args.player_name, args.days, args.max_pages)
             unique == Dedupe(w.matches)
         IN  /\ calls' = Append(calls, ListingCall("ended", page))
             /\ served' = IF out.exc # "none" THEN served
                          ELSE served + Len(out.val.results)
             /\ seen' = seen \cup IdsOf(out)
             /\ failed' = IF w.failed THEN failed \cup {FailedWalk(Primary, page)} ELSE failed
             /\ IF w.goes_on
                THEN /\ matches' = w.matches
                     /\ page' = page + 1
                     /\ UNCHANGED <<pc, ret, all_matches, todo>>
                ELSE /\ matches' = <<>>
                     /\ page' = 1
                     /\ all_matches' = unique
                     /\ IF args.include_h2h /\ unique # <<>>
                        THEN /\ todo' \in OpponentLists(unique, args.player_name)
                             /\ pc' = "h2h"
                             /\ ret' = ret
                        ELSE /\ todo' = NoTodo
                             /\ PlayerReturns(unique, h2h_records)
    /\ UNCHANGED <<op, args, typeIdx, h2h_records, walked, tournament_name,
                   odds_log, results, not_found, last>>

\* one listing call of the walk _get_h2h_matches makes for the opponent at
\* todo.cur; when the walk ends, lines 486-488, and lines 497-502
\* after the last opponent
H2HPage ==
    /\ UNCHANGED <<backend, clientVars>>
    /\ op = "player" /\ pc = "h2h"
    /\ \E out \in PlayerListingOutcomes(page) :
         LET opponent == todo.cur
             w == WalkPage(out, args.player_name, args.days * 2, H2HMaxPages)
             nxt == TodoAfter(todo, w.failed)
             h2h == h2h_matches(w.matches, args.player_name, opponent)
             records == IF h2h # <<>> THEN (opponent :> h2h) @@ h2h_records
                        ELSE h2h_records
         IN  /\ calls' = Append(calls, ListingCall("ended", page))
             /\ served' = IF out.exc # "none" THEN served
                          ELSE served + Len(out.val.results)
             /\ seen' = seen \cup IdsOf(out)
             /\ failed' = IF w.failed THEN failed \cup {FailedWalk(opponent, page)} ELSE failed
             /\ IF w.goes_on
                THEN /\ matches' = w.matches
                     /\ page' = page + 1
                     /\ UNCHANGED <<pc, ret, h2h_records, todo>>
                ELSE /\ matches' = <<>>
                     /\ page' = 1
                     /\ h2h_records' = records
                     /\ IF nxt = {}
                        THEN todo' = NoTodo /\ PlayerReturns(all_matches, records)
                        ELSE todo' \in nxt /\ pc' = pc /\ ret' = ret
    /\ UNCHANGED <<op, args, typeIdx, all_matches, walked, tournament_name,
                   odds_log, results, not_found, last>>

-----------------------------------------------------------------------------
(* models.py: EventSummary.is_winner on its own *)

\* the characters of a sets-won string
ScoreChars == { "1", "3", "-", "a" }

\* the values of EventSummary.current_score ("ss"): a string, or None
Scores == SeqsUpTo(ScoreChars, MaxScoreLen) \cup { NoneStr }

\* a match of A (home) against B (away)
WinEvent(st, ss) == Event(<<"X">>, st, <<"5">>, <<"L">>, <<"A">>, <<"B">>, ss, <<"9">>)

\* the names asked about: either side, a stranger, and the home side's name
\* in another case
WinNameArgs == { <<"A">>, <<"B">>, <<"C">>, <<"a">> }

\* a match and a name, before match.is_winner(player_name)
InitWin ==
    /\ backend = "any"
    /\ NoRateLimit
    /\ op = "is_winner"
    /\ pc = "call"
    /\ args \in { [match |-> WinEvent(st, ss), player_name |-> n] :
                    st \in {"1", "2", "3"}, ss \in Scores, n \in WinNameArgs }
    /\ calls = <<>>
    /\ served = 0
    /\ typeIdx = 1
    /\ page = 1
    /\ results = << >>
    /\ not_found = {}
    /\ matches = <<>>
    /\ walked = <<>>
    /\ all_matches = <<>>
    /\ tournament_name = None
    /\ h2h_records = << >>
    /\ todo = NoTodo
    /\ failed = {}
    /\ seen = {}
    /\ last = "pending"
    /\ odds_log = <<>>
    /\ ret = NoRet

\* match.is_winner(player_name)
IsWinnerCall ==
    /\ UNCHANGED <<backend, clientVars>>
    /\ op = "is_winner" /\ pc = "call"
    /\ ret' = is_winner(args.match, args.player_name)
    /\ pc' = IF ret'.exc # "none" THEN "raised" ELSE "done"
    /\ UNCHANGED <<op, args, calls, served, typeIdx, page, matches, all_matches,
                   h2h_records, todo, bulkVars, tournVars>>

-----------------------------------------------------------------------------
(* Specifications *)

\* the state after construction, before a call, with the backend one of bs
InitBackend(bs) ==
    /\ backend \in bs
    /\ NoRateLimit
    /\ op = "idle"
    /\ pc = "idle"
    /\ args = << >>
    /\ calls = <<>>
    /\ served = 0
    /\ typeIdx = 1
    /\ page = 1
    /\ results = << >>
    /\ not_found = {}
    /\ matches = <<>>
    /\ walked = <<>>
    /\ all_matches = <<>>
    /\ tournament_name = None
    /\ h2h_records = << >>
    /\ todo = NoTodo
    /\ failed = {}
    /\ seen = {}
    /\ last = "pending"
    /\ odds_log = <<>>
    /\ ret = NoRet

Init == InitBackend({"any"})

NextBulk == BulkCall \/ BulkPage

SpecBulk == Init /\ [][NextBulk]_vars

NextTourn == TournCall \/ TournPage \/ TournFinish

SpecTourn == Init /\ [][NextTourn]_vars

NextPlayer == PlayerCall \/ PlayerPage \/ H2HPage

SpecPlayer == Init /\ [][NextPlayer]_vars

\* the two aggregations that go through the status partitions
NextPartitions == NextBulk \/ NextTourn

SpecPartitions == Init /\ [][NextPartitions]_vars

\* the two aggregations that walk pages, against the backends "any" and
\* "barren"
NextWalks == NextTourn \/ NextPlayer

InitWalks == InitBackend({"any", "barren"})

SpecWalks == InitWalks /\ [][NextWalks]_vars

\* get_player_history against the backends "any" and "ledger"
InitLedger == InitBackend({"any", "ledger"})

SpecLedger == InitLedger /\ [][NextPlayer]_vars

\* get_events_bulk against the backends "any" and "copies"
InitCopies == InitBackend({"any", "copies"})

SpecCopies == InitCopies /\ [][NextBulk]_vars

Next == NextBulk \/ NextTourn \/ NextPlayer

Spec == Init /\ [][Next]_vars

\* get_player_history against each backend
InitCaps == InitBackend({"any", "crowded", "endless"})

SpecCaps == InitCaps /\ [][NextPlayer]_vars

\* get_events_bulk against any backend and against the endless one
InitBulkCaps == InitBackend({"any", "endless"})

SpecBulkCaps == InitBulkCaps /\ [][NextBulk]_vars

\* the three calls against any backend and against the endless one, every
\* endpoint call returning or raising in the end
InitLive == InitBackend({"any", "endless"})

SpecLive == InitLive /\ [][Next]_vars /\ WF_vars(Next)

NextOdds == TournFinish

SpecOdds == InitOdds /\ [][NextOdds]_vars

NextWin == IsWinnerCall

SpecWin == InitWin /\ [][NextWin]_vars

-----------------------------------------------------------------------------
(* Properties and methods checked on their own *)

\* the state before the evaluation of the property or method o on one of the
\* inputs
InitPure(o, inputs) ==
    /\ backend = "any"
    /\ NoRateLimit
    /\ op = o
    /\ pc = "call"
    /\ args \in inputs
    /\ calls = <<>>
    /\ served = 0
    /\ typeIdx = 1
    /\ page = 1
    /\ results = << >>
    /\ not_found = {}
    /\ matches = <<>>
    /\ walked = <<>>
    /\ all_matches = <<>>
    /\ tournament_name = None
    /\ h2h_records = << >>
    /\ todo = NoTodo
    /\ failed = {}
    /\ seen = {}
    /\ last = "pending"
    /\ odds_log = <<>>
    /\ ret = NoRet

\* what an evaluation leaves alone
pureFrame == <<clientVars, backend, op, args, calls, served, typeIdx, page, results,
               not_found, matches, walked, all_matches, tournament_name,
               h2h_records, todo, failed, seen, last, odds_log>>

\* models.py 435-461: the pagers the properties are read of; the last is the
\* pager of test_models.py
PagerArgs ==
    [page : 0..PagerMaxPage, per_page : 1..PagerMaxPerPage, total : 0..PagerMaxTotal]
    \cup { PaginationInfo(5, 50, 1722538) }

InitPager == InitPure("PaginationInfo", PagerArgs)

\* reading total_pages, has_next_page and has_previous_page of a pager
PagerRead ==
    /\ op = "PaginationInfo" /\ pc = "call"
    /\ ret' = Return([total_pages |-> total_pages(args),
                      has_next_page |-> has_next_page(args),
                      has_previous_page |-> has_previous_page(args)])
    /\ pc' = "done"
    /\ UNCHANGED pureFrame

NextPager == PagerRead

SpecPager == InitPager /\ [][NextPager]_vars

\* models.py 560: sorted_matches[-10:]
FormLength == 10

\* sorted(..., key=...) is stable: m goes behind every element whose key is
\* not greater than its own
RECURSIVE InsertByTime(_, _)
InsertByTime(s, m) ==
    IF s = <<>> THEN <<m>>
    ELSE IF event_datetime(Head(s)).val <= event_datetime(m).val
    THEN <<Head(s)>> \o InsertByTime(Tail(s), m)
    ELSE <<m>> \o s

\* models.py 556-558: sorted(self.matches, key=lambda m: m.event_datetime or
\* datetime.min), for matches whose event_datetime does not raise (a datetime
\* is never false, so the key is event_datetime)
RECURSIVE SortedByTime(_)
SortedByTime(ms) ==
    IF ms = <<>> THEN <<>>
    ELSE InsertByTime(SortedByTime(SubSeq(ms, 1, Len(ms) - 1)), ms[Len(ms)])

\* [match.is_winner(player_name) for match in ms]: the list, or the exception
\* of the first match whose is_winner raises
RECURSIVE WinFlags(_, _)
WinFlags(ms, player_name) ==
    IF ms = <<>> THEN Return(<<>>)
    ELSE LET w == is_winner(Head(ms), player_name)
         IN  IF w.exc # "none" THEN w
             ELSE LET rest == WinFlags(Tail(ms), player_name)
                  IN  IF rest.exc # "none" THEN rest
                      ELSE Return(<<w.val>> \o rest.val)

\* models.py 552-561: PlayerMatchHistory.recent_form.  The keys of all the
\* matches are computed first, and event_datetime raises for a timestamp that
\* is no number
recent_form(h) ==
    IF \E i \in 1..Len(h.matches) : event_datetime(h.matches[i]).exc # "none"
    THEN Raise("ValueError")
    ELSE LET sorted_matches == SortedByTime(h.matches)
             n == Len(sorted_matches)
         IN  WinFlags(SubSeq(sorted_matches, IF n > FormLength THEN n - FormLength + 1 ELSE 1, n),
                      h.player_name)

\* the matches of player A a history is made of: a win and a loss of the same
\* day, an older loss, a still older draw, and a win whose timestamp is no
\* number
FormPool ==
    { PlayerEvent(<<"1">>, "3", <<"A">>, <<"B">>, <<"3", "-", "1">>, <<"9">>),
      PlayerEvent(<<"2">>, "3", <<"A">>, <<"B">>, <<"1", "-", "3">>, <<"9">>),
      PlayerEvent(<<"3">>, "3", <<"C">>, <<"A">>, <<"3", "-", "1">>, <<"8">>),
      PlayerEvent(<<"4">>, "3", <<"B">>, <<"A">>, <<"1", "-", "1">>, <<"7">>),
      PlayerEvent(<<"5">>, "3", <<"A">>, <<"C">>, <<"3", "-", "1">>, <<"a">>) }

\* twelve matches of A on the days 1..12, won on the odd days
FormLongList ==
    [i \in 1..(FormLength + 2) |->
        PlayerEvent(Decimal(i), "3", <<"A">>, <<"B">>,
                    IF i % 2 = 1 THEN <<"3", "-", "1">> ELSE <<"1", "-", "3">>,
                    Decimal(i))]

\* s in the opposite order
Reversed(s) == [i \in 1..Len(s) |-> s[Len(s) + 1 - i]]

\* the match lists: the short ones, and the twelve matches newest first and
\* oldest first
FormMatchLists ==
    SeqsUpTo(FormPool, MaxFormLen) \cup { FormLongList, Reversed(FormLongList) }

\* the histories PlayerMatchHistory.from_matches makes of them
FormHistories ==
    { PlayerMatchHistory_from_matches(<<"A">>, ms, << >>, 1).val : ms \in FormMatchLists }

InitForm == InitPure("recent_form", FormHistories)

\* reading recent_form of a history
FormRead ==
    /\ op = "recent_form" /\ pc = "call"
    /\ ret' = recent_form(args)
    /\ pc' = IF ret'.exc # "none" THEN "raised" ELSE "done"
    /\ UNCHANGED pureFrame

NextForm == FormRead

SpecForm == InitForm /\ [][NextForm]_vars

\* a float that is the quotient of two ints, kept as the two ints
Quotient(n, d) ==
    IF d = 0 THEN Raise("ZeroDivisionError") ELSE Return([num |-> n, den |-> d])

\* 0.0
ZeroRate == [num |-> 0, den |-> 1]

\* win_rate without the test of total_matches
win_rate_unguarded(h) == Quotient(h.win_count, h.total_matches)

\* models.py 545-550: PlayerMatchHistory.win_rate
win_rate(h) ==
    IF h.total_matches = 0 THEN Return(ZeroRate)
    ELSE Quotient(h.win_count, h.total_matches)

\* models.py 617-622: TournamentData.completion_rate
completion_rate(t) ==
    IF t.total_matches = 0 THEN Return(ZeroRate)
    ELSE Quotient(t.completed_matches, t.total_matches)

\* the tournaments TournamentData.from_matches makes of short match lists
RateTournaments ==
    { r.val : r \in { x \in { TournamentData_from_matches(<<"5">>, <<"L">>, ms, FALSE) :
                                 ms \in SeqsUpTo(TournPool, MaxFormLen) } :
                        x.exc = "none" } }

InitRates ==
    \/ InitPure("win_rate", FormHistories)
    \/ InitPure("completion_rate", RateTournaments)

\* reading win_rate of a history
WinRateRead ==
    /\ op = "win_rate" /\ pc = "call"
    /\ ret' = win_rate(args)
    /\ pc' = IF ret'.exc # "none" THEN "raised" ELSE "done"
    /\ UNCHANGED pureFrame

\* reading completion_rate of a tournament
CompletionRateRead ==
    /\ op = "completion_rate" /\ pc = "call"
    /\ ret' = completion_rate(args)
    /\ pc' = IF ret'.exc # "none" THEN "raised" ELSE "done"
    /\ UNCHANGED pureFrame

NextRates == WinRateRead \/ CompletionRateRead

SpecRates == InitRates /\ [][NextRates]_vars

-----------------------------------------------------------------------------
(* client.py: a request of the client, and the single-resource operations   *)
(* of managers.py that are one request each                                 *)

\* client.py 109-116: the headers the client reads, in the order it reads them
RateLimitHeaders == <<"X-Ratelimit-Limit", "X-Ratelimit-Remaining", "X-Ratelimit-Reset">>

\* what a header of a response is: absent, or a string
HeaderValues == {None, Some(<<"7">>), Some(<<"1", "2">>), Some(<<"x">>)}

Headers == [SeqToSet(RateLimitHeaders) -> HeaderValues]

NoHeaders == [h \in SeqToSet(RateLimitHeaders) |-> None]

\* datetime.fromtimestamp(n)
fromtimestamp(n) == [timestamp |-> n]

\* client.py 107-116, from the i-th header on: a header that is absent leaves
\* its counter alone, one that is present sets it to int(value); an int() that
\* raises ends the update with the counters set so far
RECURSIVE UpdateFrom(_, _, _)
UpdateFrom(i, headers, counters) ==
    IF i > Len(RateLimitHeaders) THEN [exc |-> "none", counters |-> counters]
    ELSE LET value == headers[RateLimitHeaders[i]]
         IN  IF value = None THEN UpdateFrom(i + 1, headers, counters)
             ELSE LET n == PyInt(value[1])
                  IN  IF n.exc # "none"
                      THEN [exc |-> n.exc, counters |-> counters]
                      ELSE UpdateFrom(i + 1, headers,
                               [counters EXCEPT ![i] =
                                   IF RateLimitHeaders[i] = "X-Ratelimit-Reset"
                                   THEN Some(fromtimestamp(n.val))
                                   ELSE Some(n.val)])

\* client.py 107-116: _update_rate_limit_info(headers) on the counters
\* <<rate_limit, rate_limit_remaining, rate_limit_reset>>
_update_rate_limit_info(headers, counters) == UpdateFrom(1, headers, counters)

\* the body of a response: a JSON object with or without a success field, a
\* JSON array, or text that is not JSON
ObjectBody(success, rs, pg) ==
    [json |-> "object", success |-> success, results |-> rs, pager |-> pg]
ArrayBody == [json |-> "array", success |-> None, results |-> <<>>, pager |-> None]
TextBody == [json |-> "none", success |-> None, results |-> <<>>, pager |-> None]

Bodies ==
    { ObjectBody(Some(1), <<>>, None),
      ObjectBody(Some(1), <<BulkEvent(<<"Y">>, "3")>>, Some(PaginationInfo(1, 1, 1))),
      ObjectBody(Some(0), <<>>, None),
      ObjectBody(None, <<>>, None),
      ArrayBody, TextBody }

Statuses == {200, 401, 404, 429, 500, 503}

\* what session.request gives: a response, or a RequestException (connection
\* error, timeout) and no response
Response(status, headers, body) ==
    [transport |-> "ok", status |-> status, headers |-> headers, body |-> body]
TransportFailure ==
    [transport |-> "failed", status |-> 0, headers |-> NoHeaders, body |-> TextBody]

\* the body is read of a response that raise_for_status lets through only
Responses ==
    {TransportFailure}
    \cup { Response(s, h, TextBody) : s \in Statuses \ {200}, h \in Headers }
    \cup { Response(200, h, b) : h \in Headers, b \in Bodies }

\* requests: raise_for_status() raises HTTPError for a 4xx and a 5xx status
raise_for_status(status) ==
    IF status >= 400 /\ status < 600 THEN Raise("HTTPError") ELSE Return(None)

\* client.py 93-103: the error the client raises for an HTTPError
HTTPErrorAs(status) ==
    IF status = 401 THEN "AuthenticationError"
    ELSE IF status = 429 THEN "RateLimitError"
    ELSE IF status >= 500 THEN "ServerError"
    ELSE "TableTennisAPIError"

\* client.py 84-91 and 104-105: response.json() and the check of success.  The
\* JSONDecodeError of json() is a RequestException from requests 2.27 on, which
\* the client turns into TableTennisAPIError, and a plain ValueError before,
\* which it does not catch; data.get of a body that is no object raises
\* AttributeError
BodyOutcomes(body) ==
    IF body.json = "none" THEN {Raise("TableTennisAPIError"), Raise("ValueError")}
    ELSE IF body.json = "array" THEN {Raise("AttributeError")}
    ELSE IF body.success # Some(1) THEN {Raise("TableTennisAPIError")}
    ELSE {Return(body)}

\* client.py 77-105: _make_request, for what session.request gives: the
\* outcomes and the counters they leave
MakeRequestOutcomes(r, counters) ==
    IF r.transport = "failed"
    THEN {[ret |-> Raise("TableTennisAPIError"), counters |-> counters]}
    ELSE LET u == _update_rate_limit_info(r.headers, counters)
         IN  IF u.exc # "none"
             THEN {[ret |-> Raise(u.exc), counters |-> u.counters]}
             ELSE IF raise_for_status(r.status).exc # "none"
             THEN {[ret |-> Raise(HTTPErrorAs(r.status)), counters |-> u.counters]}
             ELSE {[ret |-> x, counters |-> u.counters] : x \in BodyOutcomes(r.body)}

\* managers.py 26-183 and 905-941: the operations that are one request
SingleResource == {"get_ended", "get_upcoming", "get_inplay", "list"}

ListingPathOf(o) ==
    CASE o = "get_ended" -> "ended"
      [] o = "get_upcoming" -> "upcoming"
      [] o = "get_inplay" -> "inplay"
      [] o = "list" -> "league"

\* managers.py 167-183 (get_ended; the other three alike): the page is
\* validated, the request made, and its data wrapped; nothing is caught
SingleResourceCall(o, p, r) ==
    /\ op' = o
    /\ args' = [page |-> p, response |-> r]
    /\ IF p < 1
       THEN /\ ret' = Raise("ValueError")
            /\ calls' = <<>>
            /\ UNCHANGED clientVars
       ELSE \E out \in MakeRequestOutcomes(r, clientVars) :
            /\ calls' = <<ListingCall(ListingPathOf(o), p)>>
            /\ rate_limit' = out.counters[1]
            /\ rate_limit_remaining' = out.counters[2]
            /\ rate_limit_reset' = out.counters[3]
            /\ ret' = IF out.ret.exc = "none"
                      THEN Return(APIResponse(out.ret.val.results, out.ret.val.pager))
                      ELSE out.ret
    /\ pc' = IF ret'.exc = "none" THEN "done" ELSE "raised"
    /\ UNCHANGED <<backend, served, typeIdx, page, results, not_found, matches,
                   walked, all_matches, tournament_name, h2h_records, todo,
                   failed, seen, last, odds_log>>

\* the pages a single-resource operation is called with
RequestPages == {0, 1}

\* the first call of a client: any operation, any page, any response
FirstCall ==
    /\ pc = "idle"
    /\ \E o \in SingleResource, p \in RequestPages, r \in Responses :
           SingleResourceCall(o, p, r)

NextRequest == FirstCall

SpecRequest == Init /\ [][NextRequest]_vars

\* the responses of a backend that answers or is throttled: the counters are
\* set before the status is looked at and whatever the body is
HeaderResponses ==
    {TransportFailure}
    \cup { Response(s, h, b) : s \in {200, 429}, h \in Headers,
                               b \in {ObjectBody(Some(1), <<>>, None)} }

\* a call of a client, the first or a later one, of one operation of each
\* manager
AnyCall ==
    \E o \in {"get_ended", "list"}, r \in HeaderResponses :
        SingleResourceCall(o, 1, r)

NextClient == AnyCall

SpecClient == Init /\ [][NextClient]_vars

-----------------------------------------------------------------------------
(* Claims about get_events_bulk *)

\* the requested ids, normalized to strings
Requested == SeqToSet(str_event_ids(args.event_ids))

\* C1: for a list of 1 to 100 ids get_events_bulk raises nothing and returns a
\* mapping whose keys are requested ids (as strings), each mapped to an event
\* of that id; an id no scanned page held is absent from the mapping.
BulkResultIsRequestedSubset ==
    (op = "bulk" /\ Len(args.event_ids) \in 1..100) =>
        /\ pc # "raised"
        /\ pc = "done" =>
             /\ ret.exc = "none"
             /\ DOMAIN ret.val \subseteq Requested
             /\ \A k \in DOMAIN ret.val : ret.val[k].id = k /\ k \in seen

\* C1 witness: the ids "X" and 7 were asked for, the scanned pages held the
\* events "7" and "Y" but not "X", and the mapping returned holds "7" alone.
BulkPartialResult ==
    /\ op = "bulk" /\ pc = "done"
    /\ Requested = { <<"X">>, <<"7">> }
    /\ seen = { <<"7">>, <<"Y">> }
    /\ ret.exc = "none" /\ DOMAIN ret.val = { <<"7">> }

\* C8 (as claimed): when a page below the fifth has results, leaves a requested
\* id unresolved and its pagination reports a next page, the next listing call
\* asks for the following page of the same partition.
BulkFetchesNextPage ==
    [][(/\ op = "bulk" /\ pc = "scan" /\ calls' # calls
        /\ last' = "more" /\ not_found' # {} /\ page < BulkMaxPages)
       => (pc' = "scan" /\ typeIdx' = typeIdx /\ page' = page + 1)]_vars

\* C9: no listing call is issued once the not-found set is empty.
BulkStopsWhenAllFound ==
    [][(op = "bulk" /\ Len(Listings(calls')) > Len(Listings(calls)))
       => not_found # {}]_vars

\* C9 witness: both requested ids were resolved by the first listing call and
\* the call returned without scanning the two other partitions.
BulkStoppedEarly ==
    /\ op = "bulk" /\ pc = "done"
    /\ Cardinality(Requested) = 2 /\ not_found = {}
    /\ Listings(calls) = <<ListingCall("ended", 1)>>

-----------------------------------------------------------------------------
(* Claims about get_tournament_complete *)

\* the concatenation of the lists of a list
RECURSIVE Concat(_)
Concat(ss) == IF ss = <<>> THEN <<>> ELSE Head(ss) \o Concat(Tail(ss))

\* what the walks of the partitions that met no exception returned
SucceededOnly ==
    [i \in 1..Len(walked) |-> IF match_types[i] \in failed THEN <<>> ELSE walked[i]]

TournDone == op = "tournament" /\ pc = "done"

TournMatchesDistinct ==
    TournDone =>
        LET ms == ret.val.matches
            fetched == { m.id : m \in SeqToSet(Concat(walked)) }
        IN  /\ \A i, j \in 1..Len(ms) : ms[i].id = ms[j].id => i = j
            /\ { ms[i].id : i \in 1..Len(ms) } = fetched
            /\ ret.val.total_matches = Cardinality(fetched)

\* C4 witness: the match X came back from the ended and from the live
\* partition and the result holds one match.
TournDuplicateMerged ==
    /\ TournDone
    /\ \E m \in SeqToSet(walked[1]) : m.id = <<"X">>
    /\ \E m \in SeqToSet(walked[3]) : m.id = <<"X">>
    /\ ret.val.total_matches = 1

\* C5 (as claimed): the completed, live and upcoming counts of a
\* TournamentData sum to total_matches whatever the matches' time_status.
TournCountsSumToTotal ==
    TournDone =>
        ret.val.completed_matches + ret.val.live_matches + ret.val.upcoming_matches
            = ret.val.total_matches

-----------------------------------------------------------------------------
(* Claims about get_player_history *)

\* parameters get_player_history accepts: a name that is not blank, days in
\* 1..365 and max_pages in 1..50
PlayerArgsValid ==
    /\ op = "player"
    /\ Strip(args.player_name) # <<>>
    /\ args.days \in 1..365
    /\ args.max_pages \in 1..50

PlayerDone == op = "player" /\ pc = "done"

\* C2 (as claimed): for valid parameters get_player_history propagates no
\* exception, whatever the endpoint calls raise and whatever events the
\* fetched pages hold, and the history it returns is empty when gathering the
\* primary match set failed.
PlayerHistoryAlwaysReturned ==
    PlayerArgsValid =>
        /\ pc # "raised"
        /\ (pc = "done" /\ \E f \in failed : f.walk = Primary) => ret.val.total_matches = 0

\* C6: win_count + loss_count = total_matches = len(matches) in every history
\* get_player_history returns, the matches have pairwise distinct ids, and
\* loss_count counts every match that is not a win of the player.
PlayerCountsConsistent ==
    PlayerDone =>
        LET h == ret.val
            ms == h.matches
        IN  /\ h.win_count + h.loss_count = h.total_matches
            /\ h.total_matches = Len(ms)
            /\ \A i, j \in 1..Len(ms) : ms[i].id = ms[j].id => i = j
            /\ h.loss_count =
                 Cardinality({ i \in 1..Len(ms) :
                                 is_winner(ms[i], args.player_name) # Return(TRUE) })

\* C6 witness: a history of a won match and a drawn one, 1-1, which counts as
\* the loss.
PlayerDrawCountedAsLoss ==
    /\ PlayerDone
    /\ \E i \in 1..Len(ret.val.matches) :
         ret.val.matches[i].current_score = <<"1", "-", "1">>
    /\ ret.val.win_count = 1 /\ ret.val.loss_count = 1

-----------------------------------------------------------------------------
(* Claims about the validation of the three calls *)

\* the inputs the three calls reject
InputInvalid ==
    \/ /\ op = "player"
       /\ \/ Strip(args.player_name) = <<>>
          \/ args.days \notin 1..365
          \/ args.max_pages \notin 1..50
    \/ /\ op = "tournament"
       /\ \/ Strip(PyStr(args.tournament_id)) = <<>>
          \/ args.max_pages_per_type \notin 1..20
    \/ /\ op = "bulk"
       /\ \/ Len(args.event_ids) = 0
          \/ Len(args.event_ids) > 100

\* C7: a call with an invalid input raises ValueError and no endpoint call is
\* ever issued for it.
InvalidInputRaisesBeforeAnyCall ==
    InputInvalid => (pc = "raised" /\ ret = Raise("ValueError") /\ calls = <<>>)

\* C7 witness: get_player_history("A", days=366) has raised ValueError with
\* the call log empty.
PlayerDaysRejected ==
    /\ op = "player" /\ args.player_name = <<"A">> /\ args.days = 366
    /\ args.max_pages = 1
    /\ pc = "raised" /\ ret = Raise("ValueError") /\ calls = <<>>

-----------------------------------------------------------------------------
(* Claims about EventSummary.is_winner *)

\* a sets-won string that is missing, has no "-", or has a part before or
\* after the first "-" that is no integer
Malformed(ss) ==
    \/ ss = NoneStr
    \/ ~HasDash(ss)
    \/ \E i \in 1..2 : PyInt(Split(ss)[i]).exc # "none"

\* C10 (as claimed): is_winner returns False, and raises nothing, for every
\* name on a finished match whose sets-won string is malformed.
WinMalformedIsNoWinner ==
    (/\ op = "is_winner" /\ pc # "call"
     /\ is_finished(args.match) /\ Malformed(args.match.current_score))
    => ret = Return(FALSE)

WinCalled == op = "is_winner" /\ pc # "call"

\* C11: is_winner is False for every name on a match whose time_status is not
\* "3", whatever the score string, a malformed or missing one included.
WinUnfinishedIsFalse ==
    (WinCalled /\ args.match.time_status # "3") => ret = Return(FALSE)

\* C11 witness: a live match without a score was asked about and the answer
\* is False.
WinLiveNoScoreIsFalse ==
    /\ WinCalled /\ args.match.time_status = "2"
    /\ args.match.current_score = NoneStr
    /\ ret = Return(FALSE)

\* a sets-won string "H-A" of two integers
WellFormed(ss) ==
    /\ ss # NoneStr
    /\ Len(Split(ss)) = 2
    /\ \A i \in 1..2 : PyInt(Split(ss)[i]).exc = "none"

\* C12: on a finished match with sets-won string "H-A" of two integers,
\* is_winner(x) is True exactly when H > A and x is the home name or A > H and
\* x is the away name, names compared by string equality; False when H = A.
WinFollowsSets ==
    (/\ WinCalled /\ args.match.time_status = "3"
     /\ WellFormed(args.match.current_score))
    => LET H == PyInt(Split(args.match.current_score)[1]).val
           A == PyInt(Split(args.match.current_score)[2]).val
           x == args.player_name
       IN  ret = Return(\/ (H > A /\ x = args.match.home)
                        \/ (A > H /\ x = args.match.away))

\* C12 witness: the away side B won 1-3 and is_winner("B") is True.
WinAwaySideWon ==
    /\ WinCalled /\ args.match.time_status = "3"
    /\ args.match.current_score = <<"1", "-", "3">>
    /\ args.player_name = <<"B">>
    /\ ret = Return(TRUE)

-----------------------------------------------------------------------------
(* More claims about get_tournament_complete *)

\* the matches the three walks returned, in fetch order, that have a league
\* name
NamedFetched == SelectSeq(Concat(walked), LAMBDA m : m.league_name # <<>>)

\* C13 (as claimed): tournament_name is the league name of the first fetched
\* match that has one, the partitions taken in the order ended, upcoming,
\* live, and "Tournament {id}" only when no fetched match has a league name.
TournNameIsFirstLeagueName ==
    TournDone =>
        ret.val.tournament_name =
            IF NamedFetched # <<>> THEN NamedFetched[1].league_name
            ELSE <<"T", "o", "u", "r", "n", "a", "m", "e", "n", "t", " ">>
                 \o PyStr(args.tournament_id)

\* the odds calls of the call log, in order
OddsCalls == SelectSeq(calls, LAMBDA c : c.ep = "odds")

TournFinished == op = "tournament" /\ pc \in {"done", "raised"} /\ Len(walked) = 3

\* C14: odds are queried only when include_odds is true, once for each of the
\* first 3 merged matches at most; has_odds_data is true iff include_odds is
\* true and one of the queries returned non-empty odds; a failing query counts
\* as no odds and the call goes on (it raises only when a timestamp of a merged
\* match is no number).
TournOddsSampled ==
    TournFinished =>
        LET n == IF args.include_odds THEN Min(3, Len(all_matches)) ELSE 0
        IN  /\ OddsCalls = [i \in 1..n |-> EventCall("odds", all_matches[i].id)]
            /\ Len(odds_log) = n
            /\ \A i \in 1..n : odds_log[i].id = all_matches[i].id
            /\ pc = "done" =>
                 ret.val.has_odds_data =
                     (args.include_odds /\ \E i \in 1..n : odds_log[i].out = "odds")
            /\ pc = "raised" =>
                 \E i \in 1..Len(all_matches) : PyInt(all_matches[i].time).exc # "none"

\* C14 witness: four merged matches, three odds queries of which the first
\* raised, the second returned nothing and the third returned odds, and the
\* result reports odds.
TournOddsAfterFailedQuery ==
    /\ TournFinished /\ pc = "done"
    /\ Len(all_matches) = 4
    /\ Len(odds_log) = 3
    /\ odds_log[1].out = "raised" /\ odds_log[2].out = "empty" /\ odds_log[3].out = "odds"
    /\ ret.val.has_odds_data

-----------------------------------------------------------------------------
(* More claims about get_player_history *)

\* the call has ended, by a return or by an exception after the validation
PlayerEnded == PlayerArgsValid /\ pc \in {"done", "raised"}

\* the walks the call has started: its listing calls for page 1
WalksStarted == Len(SelectSeq(calls, LAMBDA c : c = ListingCall("ended", 1)))

\* the opponents of the primary matches
Opponents == { opponent_of(m, args.player_name) : m \in SeqToSet(all_matches) }

\* the head-to-head lookups that met an exception
FailedLookups == { f \in failed : f.walk # Primary }

PlayerMatchesAreOwnAndRecent ==
    PlayerDone =>
        \A i \in 1..Len(ret.val.matches) :
            LET m == ret.val.matches[i]
            IN  /\ (m.home = args.player_name \/ m.away = args.player_name)
                /\ PyInt(m.time).exc = "none"
                /\ PyInt(m.time).val >= Now - args.days

\* C16 witness: the pages held A's win X and A's match U from before the
\* cutoff, and the history holds X alone.
PlayerOlderMatchDropped ==
    /\ PlayerDone /\ args.days = 1 /\ failed = {}
    /\ seen = { <<"X">>, <<"U">> }
    /\ ret.val.total_matches = 1
    /\ ret.val.matches[1].id = <<"X">>

-----------------------------------------------------------------------------
(* Claims about the page walks of get_tournament_complete *)

\* C17: every match of the TournamentData returned has the requested
\* tournament id, as a string, for its league_id.
TournMatchesAreOfTournament ==
    TournDone =>
        \A i \in 1..Len(ret.val.matches) :
            ret.val.matches[i].league_id = PyStr(args.tournament_id)

\* C17 witness: the listings served two events, the walks kept one match of
\* league 5 (the other event, of league U, was on a fetched page), and the
\* result holds that match alone.
TournOtherLeagueDropped ==
    /\ TournDone /\ served = 2 /\ failed = {}
    /\ Len(walked[1]) = 1 /\ walked[2] = <<>> /\ walked[3] = <<>>
    /\ ret.val.total_matches = 1
    /\ ret.val.matches[1].league_id = <<"5">>

-----------------------------------------------------------------------------
(* Claims about the page walks of both aggregations *)

-----------------------------------------------------------------------------
(* Claims about the number of listing calls *)

\* the listing calls made to one endpoint, in order
CallsTo(ep) == SelectSeq(calls, LAMBDA c : c.ep = ep)

\* C19: in one call of get_tournament_complete each partition is asked for the
\* pages 1, 2, 3, ... in order, each once, max_pages_per_type pages at most, so
\* the call makes at most 3 * max_pages_per_type listing calls.
TournPagesAreCapped ==
    (op = "tournament" /\ pc # "raised") =>
        /\ \A ep \in ListingEndpoints :
             /\ \A i \in 1..Len(CallsTo(ep)) : CallsTo(ep)[i].page = i
             /\ Len(CallsTo(ep)) <= args.max_pages_per_type
        /\ Len(Listings(calls)) <= 3 * args.max_pages_per_type

\* C19 witness: with max_pages_per_type = 2 the call has asked each of the
\* three listings for two pages, six listing calls, and has returned.
TournAllPagesWalked ==
    /\ TournDone /\ args.max_pages_per_type = 2
    /\ Len(Listings(calls)) = 6
    /\ ret.val.total_matches = 2

-----------------------------------------------------------------------------
(* Claims about the size of get_player_history *)

\* the positions in calls at which a walk starts
WalkStarts == { i \in 1..Len(calls) : calls[i].page = 1 }

\* the position at which the first head-to-head lookup starts, if any has
FirstLookupAt ==
    IF WalkStarts \ {1} = {} THEN Len(calls) + 1 ELSE MinOf(WalkStarts \ {1})

\* C20: get_player_history makes listing calls only, to the ended listing: the
\* primary walk asks for the pages 1, 2, ... up to max_pages at most, a lookup
\* is made for ten distinct opponents at most, each lookup asks for the pages
\* 1, 2, ... up to 5 at most and keeps matches not older than 2 * days, so the
\* call makes max_pages + 50 listing calls at most.
PlayerCallsAreCapped ==
    (op = "player" /\ PlayerValidate(args.player_name, args.days, args.max_pages).exc = "none") =>
        /\ \A i \in 1..Len(calls) :
             /\ calls[i] = ListingCall("ended", calls[i].page)
             /\ calls[i].page = IF i \in WalkStarts THEN 1 ELSE calls[i - 1].page + 1
             /\ calls[i].page <= IF i < FirstLookupAt THEN args.max_pages ELSE 5
        /\ calls # <<>> => calls[1].page = 1
        /\ Cardinality(WalkStarts \ {1})
             <= Min(10, Cardinality(OpponentsOf(all_matches, args.player_name)))
        /\ Cardinality(DOMAIN h2h_records) <= Cardinality(WalkStarts \ {1})
        /\ \A o \in DOMAIN h2h_records : \A i \in 1..Len(h2h_records[o]) :
               PyInt(h2h_records[o][i].time).val >= Now - 2 * args.days
        /\ Len(calls) <= args.max_pages + 50

\* C20 witness: the primary walk found eleven opponents on one page; ten
\* lookups were made, one page each, and the call returned after 11 listing
\* calls.
PlayerTenOfElevenLookedUp ==
    /\ PlayerDone /\ backend = "crowded"
    /\ Cardinality(OpponentsOf(all_matches, args.player_name)) = 11
    /\ Cardinality(WalkStarts \ {1}) = 10
    /\ Len(calls) = 11

\* the page caps reached: against a backend whose every page holds a match
\* and reports a next page, with max_pages = 2 and days = 1, the primary walk
\* took two pages, the one lookup took five, and the call returned
PlayerPageCapsReached ==
    /\ PlayerDone /\ backend = "endless" /\ args.max_pages = 2
    /\ Len(calls) = 7 /\ FirstLookupAt = 3 /\ calls[7].page = 5
    /\ Len(ret.val.h2h_records[<<"D">>]) = 5

\* the window of a lookup is 2 * days: with days = 1 the primary matches hold
\* X alone, and the record for B holds U, a match two days old
PlayerLookupWindowIsTwiceDays ==
    /\ PlayerDone /\ backend = "any" /\ args.days = 1
    /\ Len(all_matches) = 1 /\ all_matches[1].id = <<"X">>
    /\ <<"B">> \in DOMAIN ret.val.h2h_records
    /\ \E i \in 1..Len(ret.val.h2h_records[<<"B">>]) :
          ret.val.h2h_records[<<"B">>][i].id = <<"U">>

-----------------------------------------------------------------------------
(* Claims about the size and the order of get_events_bulk *)

PartitionRank(ep) == CHOOSE i \in 1..3 : <<"ended", "upcoming", "inplay">>[i] = ep

\* C22: in get_tournament_complete and in get_events_bulk every step issues
\* one listing call at most, after all the calls issued before; the listing
\* it goes to is never one that comes before the listing of an earlier call
\* in the order ended, upcoming, live, and a call that moves on to a later
\* listing asks for page 1: a listing is entered only when the walk of every
\* earlier one is over, and never entered again.
SubFetchesAreSequential ==
    [][(op' \in {"tournament", "bulk"}) =>
         LET before == {i \in 1..Len(calls) : IsListing(calls[i])}
             added == {i \in (Len(calls) + 1)..Len(calls') : IsListing(calls'[i])}
         IN  /\ Len(calls') >= Len(calls)
             /\ \A i \in 1..Len(calls) : calls'[i] = calls[i]
             /\ Cardinality(added) <= 1
             /\ \A k \in added :
                  /\ \A i \in before :
                       PartitionRank(calls[i].ep) <= PartitionRank(calls'[k].ep)
                  /\ IF \E i \in before : calls[i].ep = calls'[k].ep
                     THEN \E i \in before :
                              /\ \A j \in before : j <= i
                              /\ calls[i].ep = calls'[k].ep
                              /\ calls'[k].page = calls[i].page + 1
                     ELSE calls'[k].page = 1
      ]_vars

\* C22 witness: a tournament call that walked two pages of the ended
\* listing, then one page of the upcoming and one of the live listing.
TournWalkedInOrder ==
    /\ TournDone
    /\ Listings(calls) = <<ListingCall("ended", 1), ListingCall("ended", 2),
                           ListingCall("upcoming", 1), ListingCall("inplay", 1)>>

-----------------------------------------------------------------------------
(* Claims about termination *)

\* the call has returned or raised
Terminated == pc \in {"done", "raised"}

\* an upper bound of the number of steps the call has still to make, from
\* the caps of the code: the pages left in the walk in progress, and a full
\* walk for every partition or opponent not yet reached
StepsLeft ==
    IF Terminated THEN 0
    ELSE IF pc = "idle"
    THEN 2 + BulkMaxPages * Len(event_types) + TournMaxPages * Len(match_types)
           + PlayerMaxPages + H2HMaxPages * H2HMaxOpponents
    ELSE IF op = "bulk"
    THEN (BulkMaxPages - page + 1) + BulkMaxPages * (Len(event_types) - typeIdx)
    ELSE IF op = "tournament"
    THEN IF pc = "finish" THEN 1
         ELSE 1 + (args.max_pages_per_type - page + 1)
                + args.max_pages_per_type * (Len(match_types) - typeIdx)
    ELSE IF pc = "walk"
    THEN (args.max_pages - page + 1) + H2HMaxPages * H2HMaxOpponents
    ELSE (H2HMaxPages - page + 1) + H2HMaxPages * todo.left

\* the guards of the actions: the call is at a position from which a step
\* leads on, and the endpoint call of that step has an outcome
CanStep ==
    \/ pc = "idle"
    \/ op = "bulk" /\ pc = "scan" /\ \E out \in BulkListingOutcomes(page) : TRUE
    \/ op = "tournament" /\ pc = "walk" /\ \E out \in TournListingOutcomes(page) : TRUE
    \/ op = "tournament" /\ pc = "finish"
    \/ op = "player" /\ pc \in {"walk", "h2h"} /\ \E out \in PlayerListingOutcomes(page) : TRUE

\* C23: when every endpoint call returns or raises, every call of
\* get_player_history, get_tournament_complete and get_events_bulk returns or
\* raises in the end, also against a backend that reports a next page on every
\* page: a call that has not ended can make a step, the number of steps left
\* is a natural number that the caps bound, and every step lowers it.
EveryCallTerminates ==
    /\ [](StepsLeft \in Nat)
    /\ [](~Terminated => CanStep)
    /\ [][StepsLeft' < StepsLeft]_vars

\* C23 witness: a tournament call against the endless backend walked
\* max_pages_per_type = 2 pages of each listing and returned.
TournEndlessTerminated ==
    /\ TournDone /\ backend = "endless" /\ args.max_pages_per_type = 2
    /\ Len(Listings(calls)) = 6
    /\ StepsLeft = 0

-----------------------------------------------------------------------------
(* Claims about failures inside get_events_bulk *)

\* C24: when a listing call of get_events_bulk raises, the results and the
\* outstanding ids stay as they were, the rest of that partition is skipped
\* and the scan goes on with page 1 of the next partition; after the last
\* partition the call returns the mapping it has (nothing is raised).
BulkSkipsFailedPartition ==
    [][(op = "bulk" /\ pc = "scan" /\ last' = "raised") =>
         /\ results' = results /\ not_found' = not_found
         /\ failed' = failed \cup {event_types[typeIdx]}
         /\ IF typeIdx < Len(event_types)
            THEN pc' = "scan" /\ typeIdx' = typeIdx + 1 /\ page' = 1
            ELSE pc' = "done" /\ ret' = Return(results)
      ]_vars

\* C24 witness: all three listings raised and the call returned an empty
\* mapping.
BulkAllPartitionsFailed ==
    /\ op = "bulk" /\ pc = "done"
    /\ failed = {"ended", "upcoming", "inplay"}
    /\ ret = Return(<< >>)

\* the id X was resolved from the ended listing, the upcoming listing raised,
\* the live listing resolved 7, and both are in the mapping returned
BulkResolvedAroundFailure ==
    /\ op = "bulk" /\ pc = "done"
    /\ failed = {"upcoming"}
    /\ DOMAIN ret.val = { <<"X">>, <<"7">> }
    /\ Len(Listings(calls)) = 3

\* the positions in calls of the fetch ep for the event id
FetchesOf(ep, id) == { i \in 1..Len(calls) : calls[i] = EventCall(ep, id) }

\* C25: in get_events_bulk a failing detail or odds fetch changes nothing but
\* the slot it was to fill.  Every requested id that a scanned page held is in
\* the results, whether its fetches failed or not; for every event of the
\* results each requested fetch was made exactly once, the detail fetch before
\* the odds fetch, and no fetch that was not requested; a slot is filled only
\* by a requested fetch; and the call ends only when no id is outstanding or
\* the three listings have been scanned.
BulkEnrichmentIsBestEffort ==
    (op = "bulk" /\ pc \in {"scan", "done"}) =>
        /\ Requested \cap seen \subseteq DOMAIN results
        /\ \A id \in DOMAIN results :
             /\ Cardinality(FetchesOf("view", id)) = IF args.include_view THEN 1 ELSE 0
             /\ Cardinality(FetchesOf("odds", id)) = IF args.include_odds THEN 1 ELSE 0
             /\ \A i \in FetchesOf("view", id), j \in FetchesOf("odds", id) : j = i + 1
             /\ results[id].view_data = "set" => args.include_view
             /\ results[id].odds_data = "set" => args.include_odds
        /\ \A i \in 1..Len(calls) :
             ~IsListing(calls[i]) => calls[i].id \in DOMAIN results
        /\ pc = "done" =>
             \/ not_found = {}
             \/ \A ep \in ListingEndpoints : CallsTo(ep) # <<>>

\* C25 witness: both enrichments were requested; the detail fetch for X failed
\* and its odds fetch succeeded; 7, which the same listing held after X, was
\* resolved too, with its detail fetch succeeding and its odds fetch failing.
BulkEnrichmentFailedEventKept ==
    /\ op = "bulk" /\ pc = "done"
    /\ args.include_view /\ args.include_odds
    /\ DOMAIN ret.val = { <<"X">>, <<"7">> }
    /\ ret.val[<<"X">>].view_data = "unset" /\ ret.val[<<"X">>].odds_data = "set"
    /\ ret.val[<<"7">>].view_data = "set" /\ ret.val[<<"7">>].odds_data = "unset"
    /\ calls = <<ListingCall("ended", 1),
                 EventCall("view", <<"X">>), EventCall("odds", <<"X">>),
                 EventCall("view", <<"7">>), EventCall("odds", <<"7">>)>>

-----------------------------------------------------------------------------
(* Claims about PaginationInfo *)

\* the properties of a pager have been read
PagerDone == op = "PaginationInfo" /\ pc = "done"

\* C26: for total >= 0 and per_page >= 1, total_pages is the least number of
\* pages of per_page entries that hold total entries (the ceiling of total /
\* per_page), so it is 0 exactly when total is 0; has_next_page is page <
\* total_pages and has_previous_page is page > 1.
PagerMathIsCeiling ==
    (PagerDone /\ args.total >= 0 /\ args.per_page >= 1) =>
        LET n == ret.val.total_pages
        IN  /\ n \in Nat
            /\ (n - 1) * args.per_page < args.total
            /\ args.total <= n * args.per_page
            /\ (n = 0) <=> (args.total = 0)
            /\ ret.val.has_next_page <=> (args.page < n)
            /\ ret.val.has_previous_page <=> (args.page > 1)

\* C26 witness: the pager of the tests, page 5 of 1722538 entries by 50: 34451
\* pages, a next and a previous page.
PagerOfTheTests ==
    /\ PagerDone /\ args = PaginationInfo(5, 50, 1722538)
    /\ ret.val.total_pages = 34451
    /\ ret.val.has_next_page /\ ret.val.has_previous_page

-----------------------------------------------------------------------------
(* Claims about the properties of PlayerMatchHistory and TournamentData *)

\* recent_form of a history has been read
FormCalled == op = "recent_form" /\ pc \in {"done", "raised"}

\* all the orders of a list
RECURSIVE OrdersOf(_)
OrdersOf(ms) ==
    IF ms = <<>> THEN { <<>> }
    ELSE UNION { { <<ms[i]>> \o q :
                     q \in OrdersOf([j \in 1..(Len(ms) - 1) |->
                                           IF j < i THEN ms[j] ELSE ms[j + 1]]) } :
                 i \in 1..Len(ms) }

\* C27 (as claimed): recent_form has length min(10, total_matches), lists the
\* win flags of matches in the order of their timestamps, oldest first, and is
\* the same for every order of the matches list.
FormIsOrderIndependent ==
    FormCalled =>
        /\ ret.exc = "none"
        /\ Len(ret.val) = Min(10, args.total_matches)
        /\ Len(args.matches) <= MaxFormLen =>
             \A q \in OrdersOf(args.matches) :
                 recent_form([args EXCEPT !.matches = q]) = ret

\* the number of matches of the history that come before match k when the
\* matches are put in the order of their timestamps, matches of one timestamp
\* in the order of the list
FormRank(k) ==
    Cardinality({ j \in 1..Len(args.matches) :
        LET tj == PyInt(args.matches[j].time).val
            tk == PyInt(args.matches[k].time).val
        IN  tj < tk \/ (tj = tk /\ j < k) })

\* what holds of recent_form: it raises ValueError exactly when the timestamp
\* of some match is no number; otherwise it has length min(10, total_matches)
\* and holds the win flags of the last ten matches in the order of their
\* timestamps, matches of one timestamp in the order of the list
FormOfSortedList ==
    FormCalled =>
        IF \E i \in 1..Len(args.matches) : PyInt(args.matches[i].time).exc # "none"
        THEN ret = Raise("ValueError")
        ELSE /\ ret.exc = "none"
             /\ Len(ret.val) = Min(10, args.total_matches)
             /\ \A i \in 1..Len(ret.val) :
                  \E k \in 1..Len(args.matches) :
                      /\ FormRank(k) = Len(args.matches) - Len(ret.val) + i - 1
                      /\ ret.val[i] = is_winner(args.matches[k], args.player_name).val

\* a win and a loss of the same day: recent_form is the order of the list
FormFollowsListOnTies ==
    /\ op = "recent_form" /\ pc = "done"
    /\ Len(args.matches) = 2
    /\ args.matches[1].time = args.matches[2].time
    /\ ret.val = <<FALSE, TRUE>>

\* a history with a match whose timestamp is no number: recent_form raised
FormRaised ==
    /\ op = "recent_form" /\ pc = "raised"
    /\ args.total_matches = 1
    /\ ret = Raise("ValueError")

\* win_rate or completion_rate has been read
RateCalled == op \in {"win_rate", "completion_rate"} /\ pc \in {"done", "raised"}

\* C28: win_rate and completion_rate raise nothing; each is 0.0 when
\* total_matches is 0, and else the quotient of win_count (completed_matches)
\* by total_matches; both lie between 0 and 1.
RatesAreGuardedQuotients ==
    RateCalled =>
        LET count == IF op = "win_rate" THEN args.win_count ELSE args.completed_matches
        IN  /\ ret.exc = "none"
            /\ ret.val.den > 0
            /\ IF args.total_matches = 0
               THEN ret.val.num = 0
               ELSE ret.val.num * args.total_matches = count * ret.val.den
            /\ 0 <= ret.val.num /\ ret.val.num <= ret.val.den

\* C28 witness: the win rate of a history without matches is 0.0.
WinRateOfNoMatches ==
    /\ op = "win_rate" /\ pc = "done"
    /\ args.total_matches = 0 /\ args.matches = <<>>
    /\ ret = Return(ZeroRate)

\* two of three matches won, two of three matches completed
RateOfTwoThirds ==
    /\ RateCalled /\ args.total_matches = 3
    /\ ret.val.num * 3 = 2 * ret.val.den

-----------------------------------------------------------------------------
(* Claims about the errors of a single-resource call *)

\* a single-resource operation was called with a valid page and has ended
RequestCalled == op \in SingleResource /\ pc \in {"done", "raised"} /\ args.page >= 1

\* every header the response carries is a number
NumericHeaders(r) ==
    \A h \in DOMAIN r.headers :
        r.headers[h] # None => PyInt(r.headers[h][1]).exc = "none"

\* the error the claim names for a response, "none" where it names none
TypedErrorOf(r) ==
    IF r.transport = "failed" THEN "TableTennisAPIError"
    ELSE IF r.status = 401 THEN "AuthenticationError"
    ELSE IF r.status = 429 THEN "RateLimitError"
    ELSE IF r.status >= 500 THEN "ServerError"
    ELSE IF r.status >= 400 THEN "TableTennisAPIError"
    ELSE IF r.body.json = "object" /\ r.body.success # Some(1) THEN "TableTennisAPIError"
    ELSE "none"

\* C29: a single-resource call (get_ended, get_upcoming, get_inplay, list)
\* with a valid page either returns data or raises exactly one of the four
\* typed errors: AuthenticationError for a 401, RateLimitError for a 429,
\* ServerError for a status of 500 and more, TableTennisAPIError for any other
\* HTTP failure, for a transport failure and for a body whose success is not 1
RequestFailsTyped ==
    RequestCalled =>
        /\ ret.exc \in {"none"} \cup ApiErrors
        /\ TypedErrorOf(args.response) # "none" => ret.exc = TypedErrorOf(args.response)

\* what holds of the code: the same, for the responses whose rate-limit
\* headers are numbers and whose body, where it is read, is a JSON object
RequestFailsTypedOnWellFormed ==
    (/\ RequestCalled
     /\ NumericHeaders(args.response)
     /\ args.response.status < 400 => args.response.body.json = "object")
    =>  /\ ret.exc \in {"none"} \cup ApiErrors
        /\ TypedErrorOf(args.response) # "none" => ret.exc = TypedErrorOf(args.response)
        /\ TypedErrorOf(args.response) = "none" => ret.exc = "none"

\* a 401 whose X-Ratelimit-Limit header is no number ends in a ValueError
RequestRaisedUntyped ==
    /\ RequestCalled
    /\ args.response.transport = "ok" /\ args.response.status = 401
    /\ ret.exc = "ValueError"

\* a body that is a JSON array ends in an AttributeError
RequestArrayRaised ==
    /\ RequestCalled
    /\ args.response.body.json = "array"
    /\ ret.exc = "AttributeError"

-----------------------------------------------------------------------------
(* Claims about the rate-limit counters of the client *)

\* int(value) of a header that is a number, as the counter of the i-th
\* header holds it
CounterFor(i, value) ==
    IF RateLimitHeaders[i] = "X-Ratelimit-Reset"
    THEN Some(fromtimestamp(PyInt(value).val))
    ELSE Some(PyInt(value).val)

\* after a call that got the response r, the counter of the i-th header holds
\* the value r carried, and what it held before if r lacks the header (a
\* header that is no number has no value a counter could hold, and nothing is
\* asked of its counter)
FollowsHeader(i, r) ==
    LET value == r.headers[RateLimitHeaders[i]]
    IN  /\ value = None => clientVars'[i] = clientVars[i]
        /\ (value # None /\ PyInt(value[1]).exc = "none")
               => clientVars'[i] = CounterFor(i, value[1])

\* C30: the counters rate_limit, rate_limit_remaining and rate_limit_reset are
\* None at first, and after every response each holds the value of the latest
\* response that carried its header: a response sets the counter of every
\* header it carries and leaves the others as they were
RateLimitIsLastWriteWins ==
    /\ NoRateLimit
    /\ [][\A i \in 1..Len(RateLimitHeaders) : FollowsHeader(i, args'.response)]_vars

\* what holds of the code: the same, for the responses all of whose carried
\* headers are numbers
RateLimitFollowsNumericHeaders ==
    /\ NoRateLimit
    /\ [][NumericHeaders(args'.response) =>
              \A i \in 1..Len(RateLimitHeaders) : FollowsHeader(i, args'.response)]_vars

\* a response that carries X-Ratelimit-Limit: x and X-Ratelimit-Remaining: 7
\* has come and rate_limit_remaining is not 7
RateLimitUpdateCutShort ==
    /\ op \in SingleResource /\ pc = "raised" /\ ret.exc = "ValueError"
    /\ args.response.headers["X-Ratelimit-Limit"] = Some(<<"x">>)
    /\ args.response.headers["X-Ratelimit-Remaining"] = Some(<<"7">>)
    /\ rate_limit_remaining # Some(7)

\* a counter set by one response is overwritten by a later one, and kept by
\* one that lacks the header
RateLimitOverwritten ==
    /\ op \in SingleResource /\ pc = "done"
    /\ args.response.headers["X-Ratelimit-Limit"] = Some(<<"1", "2">>)
    /\ args.response.headers["X-Ratelimit-Remaining"] = None
    /\ rate_limit = Some(12)
    /\ rate_limit_remaining = Some(7)
    /\ rate_limit_reset = Some(fromtimestamp(7))

-----------------------------------------------------------------------------
(* Claims about pages without a qualifying match *)

\* the step is a listing call of a page walk of get_tournament_complete or of
\* get_player_history, for the page `page`
WalkStep ==
    /\ op \in {"tournament", "player"} /\ pc \in {"walk", "h2h"}
    /\ Len(calls') = Len(calls) + 1

\* the cap of the walk in progress
WalkCap ==
    IF op = "tournament" THEN args.max_pages_per_type
    ELSE IF pc = "h2h" THEN H2HMaxPages
    ELSE args.max_pages

\* C33: in a page walk of get_player_history or get_tournament_complete, a
\* page after the first that yields no qualifying match ends the walk, whatever
\* the pager says and however far the cap is: the walk goes from a page p > 1
\* to page p + 1 only when page p added a match.  A first page that yields no
\* qualifying match does not end it: against a backend whose every response
\* reports a next page and never fails, page 2 is requested after page 1
\* whenever the cap is 2 or more, whether or not page 1 held a match.
BarrenPageEndsLaterWalk ==
    [][WalkStep =>
         /\ (page > 1 /\ page' = page + 1) => Len(matches') > Len(matches)
         /\ (backend = "barren" /\ page = 1 /\ WalkCap >= 2) =>
                page' = 2 /\ pc' = pc
      ]_vars

\* C33 witness: against that backend and with the largest cap, the walk of the
\* ended listing asked for page 2 after a first page without a match of the
\* tournament, found one match on page 2, and ended after page 3, which held
\* none, although its pager reported a next page and the cap was not reached.
TournBarrenPagesWalked ==
    /\ TournDone /\ backend = "barren"
    /\ args.max_pages_per_type = BarrenPagesArg
    /\ SubSeq(calls, 1, 4) = <<ListingCall("ended", 1), ListingCall("ended", 2),
                               ListingCall("ended", 3), ListingCall("upcoming", 1)>>
    /\ Len(walked[1]) = 1

\* the same in a head-to-head walk of get_player_history, whose cap is 5
PlayerBarrenPagesWalked ==
    /\ PlayerDone /\ backend = "barren"
    /\ args.max_pages = 1
    /\ calls = <<ListingCall("ended", 1), ListingCall("ended", 1),
                 ListingCall("ended", 2), ListingCall("ended", 3)>>
    /\ Len(ret.val.h2h_records[<<"B">>]) = 1

-----------------------------------------------------------------------------
(* Claims about the next page of get_events_bulk *)

\* C35 (as claimed): in get_events_bulk, after a page below the fifth that has
\* results and leaves a requested id unresolved, the next page of the same
\* partition is requested exactly when the pagination of the response reports
\* a next page (has_next_page, page < ceil(total / per_page)).
BulkNextPageAgreesWithPager ==
    [][(/\ op = "bulk" /\ pc = "scan" /\ calls' # calls
        /\ last' \in {"more", "end", "nopager"}
        /\ not_found' # {} /\ page < BulkMaxPages)
       => ((pc' = "scan" /\ typeIdx' = typeIdx /\ page' = page + 1)
              <=> last' = "more")]_vars

\* what holds of the code: no partition is ever asked for a second page
BulkNeverAsksSecondPage ==
    op = "bulk" => \A i \in 1..Len(calls) : IsListing(calls[i]) => calls[i].page = 1

\* a page with a requested id unresolved and a next page reported was met,
\* and the scan went to the next partition
BulkLeftPartitionWithMore ==
    /\ op = "bulk" /\ pc = "scan" /\ last = "more" /\ not_found # {}
    /\ typeIdx = 2 /\ page = 1

-----------------------------------------------------------------------------
(* Claims about the merge of get_tournament_complete *)

\* the places of the id in a list of matches
PlacesOf(s, id) == { i \in 1..Len(s) : s[i].id = id }

\* the least and the greatest of a non-empty set of places
FirstOf(S) == CHOOSE i \in S : \A j \in S : i <= j
LastOf(S) == CHOOSE i \in S : \A j \in S : j <= i

\* C36: in the result of get_tournament_complete every fetched id has one
\* entry; it is the copy fetched last (of the live listing rather than the
\* upcoming, of the upcoming rather than the ended), the entries stand in the
\* order in which their ids were first fetched, and completed_matches,
\* live_matches and upcoming_matches count the retained copies by their status.
TournMergeKeepsLastCopy ==
    (TournDone /\ ret.exc = "none") =>
        LET fetched == Concat(walked)
            merged == ret.val.matches
        IN  /\ \A i \in 1..Len(fetched) : Cardinality(PlacesOf(merged, fetched[i].id)) = 1
            /\ \A i \in 1..Len(merged) :
                 /\ PlacesOf(fetched, merged[i].id) # {}
                 /\ merged[i] = fetched[LastOf(PlacesOf(fetched, merged[i].id))]
            /\ \A i, j \in 1..Len(merged) :
                 i < j => FirstOf(PlacesOf(fetched, merged[i].id))
                            < FirstOf(PlacesOf(fetched, merged[j].id))
            /\ ret.val.completed_matches
                 = Cardinality({ i \in 1..Len(merged) : merged[i].time_status = "3" })
            /\ ret.val.live_matches
                 = Cardinality({ i \in 1..Len(merged) : merged[i].time_status = "2" })
            /\ ret.val.upcoming_matches
                 = Cardinality({ i \in 1..Len(merged) : merged[i].time_status \in {"0", "1"} })

\* C36 witness: the ended listing gave match X as finished and the live
\* listing gave it as live; the result holds the live copy alone and counts
\* one live match and no completed one.
TournLiveCopyKept ==
    /\ TournDone /\ ret.exc = "none"
    /\ walked = << <<TournEvent(<<"X">>, "3", <<"5">>, <<"L">>)>>, <<>>,
                   <<TournEvent(<<"X">>, "2", <<"5">>, <<"L">>)>> >>
    /\ ret.val.matches = <<TournEvent(<<"X">>, "2", <<"5">>, <<"L">>)>>
    /\ ret.val.live_matches = 1 /\ ret.val.completed_matches = 0

\* the same with another match fetched in between: the copy fetched last
\* stands where the id was fetched first
TournLastCopyAtFirstPlace ==
    /\ TournDone /\ ret.exc = "none"
    /\ Concat(walked) = << TournEvent(<<"X">>, "3", <<"5">>, <<"L">>),
                           TournEvent(<<"Y">>, "1", <<"5">>, <<>>),
                           TournEvent(<<"X">>, "2", <<"5">>, <<"L">>) >>
    /\ ret.val.matches = << TournEvent(<<"X">>, "2", <<"5">>, <<"L">>),
                            TournEvent(<<"Y">>, "1", <<"5">>, <<>>) >>

-----------------------------------------------------------------------------
(* Claims about the resolution of an id in get_events_bulk *)

\* an event as the listing gave it, without what the two slots hold
AsFetched(e) == [e EXCEPT !.view_data = "unset", !.odds_data = "unset"]

\* against the backend "copies": the events of the pages asked for so far, in
\* the order of the scan
CopiesScanned ==
    LET at == { i \in 1..Len(calls) : IsListing(calls[i]) }
        Pages[n \in 0..Len(calls)] ==
            IF n = 0 THEN <<>>
            ELSE Pages[n - 1] \o (IF n \in at THEN CopiesPage(calls[n].ep, calls[n].page)
                                  ELSE <<>>)
    IN  Pages[Len(calls)]

\* C37: in get_events_bulk every id is resolved once at most.  An entry of
\* results belongs to a requested id and, once stored, is never replaced; the
\* detail and the odds endpoint are each called once at most for an id, and
\* only for a requested id that was resolved; and the entry is the first event
\* of that id in the order of the scan (ended, upcoming, live; place on the
\* page), whatever copies come later.
BulkResolvesOnce ==
    /\ [](op = "bulk" =>
            /\ \A id \in DOMAIN results :
                 id \in Requested /\ results[id].id = id /\ id \in seen
            /\ \A i \in 1..Len(calls) :
                 ~IsListing(calls[i]) =>
                     /\ calls[i].ep \in {"view", "odds"}
                     /\ calls[i].id \in Requested \cap DOMAIN results
                     /\ \A j \in 1..Len(calls) : calls[j] = calls[i] => j = i
            /\ backend = "copies" =>
                 \A id \in DOMAIN results :
                     AsFetched(results[id])
                        = CopiesScanned[FirstOf(PlacesOf(CopiesScanned, id))])
    /\ [][(op = "bulk" /\ op' = "bulk") =>
             \A id \in DOMAIN results :
                 id \in DOMAIN results' /\ results'[id] = results[id]]_vars

\* C37 witness: against the backend "copies" the ids X and 7 were asked for
\* with both flags.  The ended page held two copies of X and the upcoming page
\* a third one and two copies of 7: the first copy of each is stored, and each
\* got one detail and one odds call.
BulkFirstCopiesStored ==
    /\ op = "bulk" /\ pc = "done" /\ backend = "copies"
    /\ args.include_view /\ args.include_odds
    /\ Requested = { <<"X">>, <<"7">> }
    /\ AsFetched(ret.val[<<"X">>]) = BulkEvent(<<"X">>, "3")
    /\ AsFetched(ret.val[<<"7">>]) = BulkEvent(<<"7">>, "1")
    /\ calls = << ListingCall("ended", 1),
                  EventCall("view", <<"X">>), EventCall("odds", <<"X">>),
                  ListingCall("upcoming", 1),
                  EventCall("view", <<"7">>), EventCall("odds", <<"7">>) >>

-----------------------------------------------------------------------------
(* Claims about what the aggregations do to the events *)

\* every event of the list is an event of the pool, field by field
AllOf(ms, pool) == \A i \in 1..Len(ms) : ms[i] \in pool

\* C34: the aggregations leave the fetched events as they were.  Every match
\* get_tournament_complete and get_player_history hold or return (matches,
\* head-to-head records) is an event of the listings, field by field; every
\* event get_events_bulk stores is one apart from the two slots, and a slot is
\* set only when its flag was given.
EventsAreAsFetched ==
    /\ op = "tournament" =>
         /\ AllOf(matches, TournPool) /\ AllOf(all_matches, TournPool)
         /\ \A i \in 1..Len(walked) : AllOf(walked[i], TournPool)
         /\ (pc = "done" /\ ret.exc = "none") => AllOf(ret.val.matches, TournPool)
    /\ op = "player" =>
         /\ AllOf(matches, PlayerPool) /\ AllOf(all_matches, PlayerPool)
         /\ \A o \in DOMAIN h2h_records : AllOf(h2h_records[o], PlayerPool)
         /\ (pc = "done" /\ ret.exc = "none") =>
               /\ AllOf(ret.val.matches, PlayerPool)
               /\ \A o \in DOMAIN ret.val.h2h_records :
                      AllOf(ret.val.h2h_records[o], PlayerPool)
    /\ op = "bulk" =>
         /\ \A id \in DOMAIN results :
              /\ AsFetched(results[id]) \in BulkPool
              /\ results[id].view_data # "unset" => args.include_view
              /\ results[id].odds_data # "unset" => args.include_odds
         /\ (pc = "done" /\ ret.exc = "none") => ret.val = results

\* C34 witness: get_events_bulk with include_view alone resolved X: the event
\* returned is the event of the listing with the detail slot set and the odds
\* slot absent.
BulkOnlyViewAttached ==
    /\ op = "bulk" /\ pc = "done"
    /\ args.include_view /\ ~args.include_odds
    /\ <<"X">> \in DOMAIN ret.val
    /\ ret.val[<<"X">>] = [BulkEvent(<<"X">>, "3") EXCEPT !.view_data = "set"]

\* a tournament and a player call returned matches
TournReturnedFetchedMatch ==
    /\ TournDone /\ ret.exc = "none"
    /\ ret.val.matches = <<TournEvent(<<"X">>, "3", <<"5">>, <<"L">>)>>

-----------------------------------------------------------------------------
(* Claims about the head-to-head records *)

\* the match has p on one side and o on the other
Between(m, p, o) ==
    \/ m.home = p /\ m.away = o
    \/ m.away = p /\ m.home = o

\* C39: in every result of get_player_history the head-to-head records are
\* well formed: a key is the counter-party of a match of matches, its list is
\* not empty and holds only matches between the player and the key; there are
\* no records without include_h2h or without a primary match.
H2HRecordsWellFormed ==
    (PlayerDone /\ ret.exc = "none") =>
        LET r == ret.val
        IN  /\ \A o \in DOMAIN r.h2h_records :
                 /\ \E i \in 1..Len(r.matches) : Between(r.matches[i], args.player_name, o)
                 /\ r.h2h_records[o] # <<>>
                 /\ \A j \in 1..Len(r.h2h_records[o]) :
                        Between(r.h2h_records[o][j], args.player_name, o)
            /\ (~args.include_h2h \/ r.matches = <<>>) => DOMAIN r.h2h_records = {}

\* C39 witness: a result with one match, against B, and a record of one
\* match for B
H2HRecordOfOneOpponent ==
    /\ PlayerDone /\ ret.exc = "none"
    /\ args.include_h2h
    /\ Len(ret.val.matches) = 1
    /\ Between(ret.val.matches[1], args.player_name, <<"B">>)
    /\ DOMAIN ret.val.h2h_records = { <<"B">> }
    /\ Len(ret.val.h2h_records[<<"B">>]) = 1

\* a result with primary matches and include_h2h whose records are empty
H2HRecordsEmptyAfterLookups ==
    /\ PlayerDone /\ ret.exc = "none"
    /\ args.include_h2h
    /\ ret.val.matches # <<>>
    /\ DOMAIN ret.val.h2h_records = {}

\* the primary matches against o are among the record of o
Covered(r, p, o) ==
    \A i \in 1..Len(r.matches) :
        Between(r.matches[i], p, o) =>
            /\ o \in DOMAIN r.h2h_records
            /\ \E j \in 1..Len(r.h2h_records[o]) : r.h2h_records[o][j] = r.matches[i]

\* C40: against a backend whose pages do not change and whose calls do not
\* fail, the head-to-head record of every opponent looked up holds every
\* match of matches played against that opponent, whatever max_pages is.
\* (The backend "ledger" has one opponent, B, who is looked up.)
H2HCoversPrimary ==
    (backend = "ledger" /\ PlayerDone /\ ret.exc = "none" /\ args.include_h2h) =>
        Covered(ret.val, args.player_name, <<"B">>)

\* the same for the calls whose max_pages is at most the five pages of a
\* head-to-head walk
H2HCoversPrimaryOfFivePages ==
    (/\ backend = "ledger" /\ PlayerDone /\ ret.exc = "none" /\ args.include_h2h
     /\ args.max_pages <= H2HMaxPages) =>
        Covered(ret.val, args.player_name, <<"B">>)

\* a call with max_pages = 5 returned five matches and a record of the five
H2HFivePagesCovered ==
    /\ backend = "ledger" /\ PlayerDone /\ ret.exc = "none" /\ args.include_h2h
    /\ args.max_pages = H2HMaxPages
    /\ Len(ret.val.matches) = H2HMaxPages
    /\ ret.val.h2h_records = (<<"B">> :> ret.val.matches)

\* a call with max_pages = 6 returned the match of page 6 and a record
\* without it
H2HMissesSixthPage ==
    /\ backend = "ledger" /\ PlayerDone /\ ret.exc = "none" /\ args.include_h2h
    /\ args.max_pages = LedgerPages
    /\ Len(ret.val.matches) = LedgerPages
    /\ Len(ret.val.h2h_records[<<"B">>]) = H2HMaxPages

-----------------------------------------------------------------------------
(* models.py: Event.winner next to EventSummary.is_winner *)

\* an Event (the detail view of a match, models.py 242-262) with the fields
\* winner reads; home and away are the players' names
DetailEvent(st, home, away, fs) ==
    [time_status |-> st, home |-> home, away |-> away, final_score |-> fs]

\* Event.home_sets_won: int(self.final_score.split("-")[0])
home_sets_won(e) ==
    IF e.final_score = NoneStr THEN Raise("AttributeError")
    ELSE PyInt(Split(e.final_score)[1])

\* Event.away_sets_won: int(self.final_score.split("-")[1])
away_sets_won(e) ==
    IF e.final_score = NoneStr THEN Raise("AttributeError")
    ELSE LET parts == Split(e.final_score)
         IN  IF Len(parts) < 2 THEN Raise("IndexError") ELSE PyInt(parts[2])

\* Event.winner: the side of the player returned, "none" for None
winner(e) ==
    IF e.time_status # "3" THEN Return("none")
    ELSE LET h == home_sets_won(e)
             a == away_sets_won(e)
         IN  IF h.exc # "none" THEN h
             ELSE IF a.exc # "none" THEN a
             ELSE IF h.val > a.val THEN Return("home") ELSE Return("away")

\* a match of A (home) against B (away), its status and its sets-won string
WinnerArgs == [time_status : {"1", "2", "3"}, ss : Scores]

InitWinner == InitPure("winner", WinnerArgs)

\* reading winner of the detail view and is_winner of either player's name
\* of the summary, both of the same match
WinnerRead ==
    /\ op = "winner" /\ pc = "call"
    /\ ret' = Return(
         [winner |-> winner(DetailEvent(args.time_status, <<"A">>, <<"B">>, args.ss)),
          home |-> is_winner(WinEvent(args.time_status, args.ss), <<"A">>),
          away |-> is_winner(WinEvent(args.time_status, args.ss), <<"B">>)])
    /\ pc' = "done"
    /\ UNCHANGED pureFrame

NextWinner == WinnerRead

SpecWinner == InitWinner /\ [][NextWinner]_vars

\* the match was read, it is finished and its string holds two set counts
WinnerReadOfCounts ==
    /\ op = "winner" /\ pc = "done"
    /\ args.time_status = "3"
    /\ sets_score(WinEvent(args.time_status, args.ss)).exc = "none"
    /\ HasDash(args.ss)

\* the two counts of the string are equal
EqualCounts ==
    LET s == sets_score(WinEvent(args.time_status, args.ss)).val
    IN  s[1] = s[2]

\* C38: for a finished match and one sets-won string, winner is the home
\* (away) player exactly when is_winner of the home (away) player's name is
\* True, and with equal set counts neither reports a winner.
WinnerAgreesWithIsWinner ==
    WinnerReadOfCounts =>
        /\ ret.val.winner = Return("home") <=> ret.val.home = Return(TRUE)
        /\ ret.val.winner = Return("away") <=> ret.val.away = Return(TRUE)
        /\ EqualCounts =>
             /\ ret.val.winner = Return("none")
             /\ ret.val.home = Return(FALSE) /\ ret.val.away = Return(FALSE)

\* the two agree whenever the counts differ
WinnerAgreesOnUnequalCounts ==
    (WinnerReadOfCounts /\ ~EqualCounts) =>
        /\ ret.val.winner = Return("home") <=> ret.val.home = Return(TRUE)
        /\ ret.val.winner = Return("away") <=> ret.val.away = Return(TRUE)
        /\ ret.val.winner # Return("none")

\* with equal counts winner is the away player and is_winner is False for
\* both names
WinnerOfDrawIsAway ==
    (WinnerReadOfCounts /\ EqualCounts) =>
        /\ ret.val.winner = Return("away")
        /\ ret.val.home = Return(FALSE) /\ ret.val.away = Return(FALSE)

\* the string "1-1" was read
WinnerDrawRead == WinnerReadOfCounts /\ args.ss = <<"1", "-", "1">>

\* the string "3-1" was read
WinnerHomeRead == WinnerReadOfCounts /\ args.ss = <<"3", "-", "1">>

-----------------------------------------------------------------------------
(* managers.py: LeagueManager.list_all, PlayerManager.list_all,
   PlayerManager.search *)

\* a League or a Player of a list page: its id and its name
Listed(id, name) == [id |-> id, name |-> name]

\* the leagues LeagueManager.list can return
LeaguePool == { Listed("1", <<"L">>), Listed("2", <<"M">>) }

\* the players PlayerManager.list can return: two whose names hold "ab" in
\* some case, one whose name does not, and one without a name
TeamPool ==
    { Listed("1", <<"A", "b">>), Listed("2", <<"c", "a", "B">>),
      Listed("3", <<"b", "a">>), Listed("4", NoneStr) }

\* the operations and the endpoint each of them lists
ListAllOps == {"LeagueManager.list_all", "PlayerManager.list_all"}
ListEndpointOf(o) == IF o = "LeagueManager.list_all" THEN "league" ELSE "team"
ListPoolOf(o) == IF o = "LeagueManager.list_all" THEN LeaguePool ELSE TeamPool

\* the backends that hold a fixed number of pages, and that number
Shelves == {"shelf1", "shelf2", "shelf3"}
ShelfPagesOf(b) == IF b = "shelf1" THEN 1 ELSE IF b = "shelf2" THEN 2 ELSE 3

\* page p of a shelf: one item that no other page holds
ShelfPage(p) ==
    IF p \in 1..ShelfPagesOf(backend)
    THEN <<Listed(Digits[p + 1], <<"a", "b", Digits[p + 1]>>)>>
    ELSE <<>>

\* the items of the first n pages of a shelf, in page order
ShelfItems(n) == [p \in 1..n |-> Listed(Digits[p + 1], <<"a", "b", Digits[p + 1]>>)]

\* what list(page = p) can do.  Against the backend "any": what
\* ListingOutcomes says.  Against a shelf: page p is ShelfPage(p) at every
\* call, no call fails, and the pager counts the pages of the shelf
ListOutcomes(pool, p) ==
    IF backend \in Shelves
    THEN { Return(APIResponse(ShelfPage(p),
                              Some(PaginationInfo(p, 1, ShelfPagesOf(backend))))) }
    ELSE ListingOutcomes(pool, p, MaxServedList)

\* the loop were it to go on after every page that holds items
ListGoesOnWhileItems(response) == response.results # <<>>

\* lines 965-966, 1071-1072, 1115-1116: the loop goes on to the next page
ListGoesOn(response) ==
    response.pagination # None /\ has_next_page(response.pagination[1])

\* the call of list_all (lines 957-958, 1063-1064)
ListAllCall ==
    /\ UNCHANGED <<backend, clientVars>>
    /\ pc = "idle"
    /\ \E o \in ListAllOps :
         /\ op' = o
         /\ args' = [country_code |-> None]
    /\ pc' = "pages"
    /\ page' = 1
    /\ matches' = <<>>
    /\ walked' = <<>>
    /\ ret' = NoRet
    /\ UNCHANGED <<calls, served, typeIdx, all_matches, h2h_records, todo,
                   bulkVars, tournament_name, failed, odds_log>>

\* one turn of the loop of list_all (lines 960-970, 1066-1076): matches is
\* all_leagues / all_players, walked the responses so far.  An exception of
\* list is not caught.  The loop has no bound of its own: the model stops
\* following it after MaxListPages pages
ListAllPage ==
    /\ UNCHANGED <<backend, clientVars>>
    /\ op \in ListAllOps /\ pc = "pages"
    /\ page <= MaxListPages
    /\ \E out \in ListOutcomes(ListPoolOf(op), page) :
         /\ calls' = Append(calls, ListingCall(ListEndpointOf(op), page))
         /\ IF out.exc # "none"
            THEN /\ pc' = "raised"
                 /\ ret' = out
                 /\ UNCHANGED <<served, matches, walked, page>>
            ELSE /\ served' = served + Len(out.val.results)
                 /\ matches' = matches \o out.val.results
                 /\ walked' = Append(walked, out.val)
                 /\ IF ListGoesOn(out.val)
                    THEN page' = page + 1 /\ UNCHANGED <<pc, ret>>
                    ELSE page' = page /\ pc' = "done" /\ ret' = Return(matches')
    /\ UNCHANGED <<op, args, typeIdx, all_matches, h2h_records, todo, bulkVars,
                   tournament_name, failed, odds_log>>

NextListAll == ListAllCall \/ ListAllPage

\* list_all against the backend "any" and against the shelves
InitListAll == InitBackend({"any"} \cup Shelves)

SpecListAll == InitListAll /\ [][NextListAll]_vars

\* the results of the responses, one after the other
RECURSIVE ResultsOf(_)
ResultsOf(rs) ==
    IF rs = <<>> THEN <<>> ELSE Head(rs).results \o ResultsOf(Tail(rs))

\* the response has a pager and the pager reports a next page
ReportsNextPage(response) ==
    /\ response.pagination # None
    /\ response.pagination[1].page < total_pages(response.pagination[1])

ListAllDone == op \in ListAllOps /\ pc = "done"

\* C31: list_all of either manager asks for the pages 1, 2, 3, ... in this
\* order, every response before the last reports a next page, the call ends
\* with the first response that has no pager or reports no next page, and it
\* returns the fetched pages one after the other; against a backend that
\* holds N pages it makes N calls.
ListAllWalksEveryPage ==
    op \in ListAllOps =>
        /\ \A i \in 1..Len(calls) : calls[i] = ListingCall(ListEndpointOf(op), i)
        /\ \A i \in 1..Len(walked) :
               i < Len(walked) \/ pc = "pages" => ReportsNextPage(walked[i])
        /\ pc = "pages" => Len(calls) = Len(walked) /\ page = Len(calls) + 1
        /\ pc = "done" =>
               /\ Len(calls) = Len(walked) /\ walked # <<>>
               /\ ~ReportsNextPage(walked[Len(walked)])
               /\ ret = Return(ResultsOf(walked))
        /\ backend \in Shelves =>
               /\ pc # "raised"
               /\ Len(calls) <= ShelfPagesOf(backend)
               /\ pc = "done" => Len(calls) = ShelfPagesOf(backend)

\* C31 witness: list_all of the players ended against the shelf of three
\* pages after three calls and returned the three players in page order
ListAllOfThreePages ==
    /\ op = "PlayerManager.list_all" /\ pc = "done"
    /\ backend = "shelf3"
    /\ Len(calls) = 3
    /\ ret.val = ShelfItems(3)

\* list_all of the leagues ended after two pages at a response without a
\* pager
ListAllEndedWithoutPager ==
    /\ op = "LeagueManager.list_all" /\ pc = "done"
    /\ backend = "any"
    /\ Len(calls) = 2
    /\ walked[2].pagination = None
    /\ Len(ret.val) = 2

\* list_all raised the exception of list
ListAllRaised ==
    op \in ListAllOps /\ pc = "raised" /\ Len(calls) = 2 /\ ret.exc = "ServerError"

\* line 1101: max_pages_to_search = 10
max_pages_to_search == 10

\* str.lower() on the letters of the model
LowerChar(c) == IF c = "A" THEN "a" ELSE IF c = "B" THEN "b" ELSE c
Lower(s) == [i \in 1..Len(s) |-> LowerChar(s[i])]

\* q in s
Contains(q, s) ==
    \E i \in 0..(Len(s) - Len(q)) : SubSeq(s, i + 1, i + Len(q)) = q

\* the test of line 1109 without lowering the name
name_matches_as_written(query_lower, name) == Contains(query_lower, name)

\* line 1109: query_lower in player.name.lower(), for a name that is a string
name_matches(query_lower, name) == Contains(query_lower, Lower(name))

\* lines 1108-1112: the scan of one page.  The matches after it, and whether
\* it met an exception (a player without a name: None has no lower)
RECURSIVE ScanPlayers(_, _, _, _)
ScanPlayers(rs, acc, query_lower, limit) ==
    IF rs = <<>> THEN [matches |-> acc, failed |-> FALSE]
    ELSE LET player == Head(rs)
         IN  IF player.name = NoneStr THEN [matches |-> acc, failed |-> TRUE]
             ELSE IF name_matches(query_lower, player.name)
             THEN IF Len(acc) + 1 >= limit
                  THEN [matches |-> Append(acc, player), failed |-> FALSE]
                  ELSE ScanPlayers(Tail(rs), Append(acc, player), query_lower, limit)
             ELSE ScanPlayers(Tail(rs), acc, query_lower, limit)

\* matches[:limit], for a limit that is not negative
Take(s, n) == SubSeq(s, 1, Min(n, Len(s)))

\* line 1103: the test of the while loop; pages_searched is page - 1, the two
\* being raised together (lines 1118-1119)
SearchGoesOn(ms, limit, p) ==
    Len(ms) < limit /\ p - 1 < max_pages_to_search

\* the queries and limits a caller passes
SearchQueries == { <<>>, <<"a", "b">>, <<"A", "B">>, <<"c">> }
SearchLimits == 0..MaxLimit

\* the call of search (lines 1097-1103) up to the first test of the loop
SearchCall ==
    /\ UNCHANGED <<backend, clientVars>>
    /\ pc = "idle"
    /\ op' = "PlayerManager.search"
    /\ \E q \in SearchQueries, l \in SearchLimits :
         /\ args' = [query |-> q, limit |-> l, country_code |-> None]
         /\ IF SearchGoesOn(<<>>, l, 1)
            THEN pc' = "pages" /\ ret' = NoRet
            ELSE pc' = "done" /\ ret' = Return(Take(<<>>, l))
    /\ page' = 1
    /\ matches' = <<>>
    /\ walked' = <<>>
    /\ failed' = {}
    /\ UNCHANGED <<calls, served, typeIdx, all_matches, h2h_records, todo,
                   bulkVars, tournament_name, odds_log>>

\* one turn of the loop of search (lines 1103-1124) and, when the loop ends,
\* the return.  walked is the pages returned so far, failed the pages at which
\* the call or the scan met an exception
SearchPage ==
    /\ UNCHANGED <<backend, clientVars>>
    /\ op = "PlayerManager.search" /\ pc = "pages"
    /\ \E out \in ListOutcomes(TeamPool, page) :
         LET scan == IF out.exc # "none" THEN [matches |-> matches, failed |-> TRUE]
                     ELSE ScanPlayers(out.val.results, matches,
                                      Lower(args.query), args.limit)
             goes_on == /\ ~scan.failed
                        /\ ListGoesOn(out.val)
                        /\ SearchGoesOn(scan.matches, args.limit, page + 1)
         IN  /\ calls' = Append(calls, ListingCall("team", page))
             /\ served' = IF out.exc # "none" THEN served
                          ELSE served + Len(out.val.results)
             /\ walked' = IF out.exc # "none" THEN walked
                          ELSE Append(walked, out.val.results)
             /\ failed' = IF scan.failed THEN failed \cup {page} ELSE failed
             /\ matches' = scan.matches
             /\ IF goes_on
                THEN page' = page + 1 /\ UNCHANGED <<pc, ret>>
                ELSE /\ page' = page
                     /\ pc' = "done"
                     /\ ret' = Return(Take(scan.matches, args.limit))
    /\ UNCHANGED <<op, args, typeIdx, all_matches, h2h_records, todo, bulkVars,
                   tournament_name, odds_log>>

NextSearch == SearchCall \/ SearchPage

\* search against the backend "any" and against the shelves
InitSearch == InitBackend({"any"} \cup Shelves)

SpecSearch == InitSearch /\ [][NextSearch]_vars

\* the name holds the query, whatever the case of the letters of either
HoldsIgnoringCase(query, name) ==
    /\ name # NoneStr
    /\ \E i \in 0..(Len(name) - Len(query)) :
          \A k \in 1..Len(query) : LowerChar(name[i + k]) = LowerChar(query[k])

\* the players of the pages whose names hold the query, in page order
Holders(pages, query) ==
    SelectSeq(Concat(pages), LAMBDA p : HoldsIgnoringCase(query, p.name))

\* s is the beginning of t
StartsWith(t, s) == Len(s) <= Len(t) /\ SubSeq(t, 1, Len(s)) = s

SearchDone == op = "PlayerManager.search" /\ pc = "done"

\* C32: search returns at most limit players, each with a name that holds
\* the query whatever the case, in page order; it makes at most 10 list
\* calls; when a page fetch fails it stops and returns the players matched on
\* the pages fetched before, and it never raises.
SearchReturnsMatches ==
    op = "PlayerManager.search" =>
        /\ Len(calls) <= 10
        /\ \A i \in 1..Len(calls) : calls[i] = ListingCall("team", i)
        /\ pc # "raised"
        /\ pc = "pages" => failed = {}
        /\ pc = "done" =>
             /\ ret.exc = "none"
             /\ Len(ret.val) <= args.limit
             /\ \A i \in 1..Len(ret.val) : HoldsIgnoringCase(args.query, ret.val[i].name)
             /\ StartsWith(Holders(walked, args.query), ret.val)
             /\ failed \subseteq {Len(calls)}
             /\ Len(walked) < Len(calls) =>
                   /\ failed = {Len(calls)}
                   /\ ret.val = Holders(walked, args.query)
             /\ (failed = {} \/ Len(walked) < Len(calls)) =>
                   ret.val = Take(Holders(walked, args.query), args.limit)

\* C32 witness: the second list call of a search raised, and the search
\* returned the one player the first page matched, fewer than the limit
SearchKeptMatchesAfterFailure ==
    /\ SearchDone
    /\ Len(calls) = 2 /\ Len(walked) = 1
    /\ args.limit = 2 /\ args.query = <<"A", "B">>
    /\ ret.val = <<Listed("2", <<"c", "a", "B">>)>>

\* a search made ten list calls
SearchMadeTenCalls == SearchDone /\ Len(calls) = 10

\* a search stopped at the limit with a further match on the page
SearchCutAtLimit ==
    /\ SearchDone /\ backend = "any"
    /\ args.limit = 1
    /\ Len(Holders(walked, args.query)) = 2
    /\ Len(ret.val) = 1

=============================================================================
